---- MODULE Spec2Model ----
(***************************************************************************)
(* Model of the transcript analyzer of yt-transcripts-analyzer             *)
(* (scripts/analyze.py): line parsing, keyword counting, window merging,   *)
(* scoring and the per-video batch loop of analyze_transcriptions.         *)
(*                                                                         *)
(* Text is a sequence of one-character strings.  An optional value is a    *)
(* sequence: None is <<>> and a value x is <<x>>.  Weights and scores are  *)
(* kept in halves (a weight of 1.0 is 2, of 2.0 is 4), which is exact for  *)
(* the weights of the program and their multiples.                         *)
(***************************************************************************)
EXTENDS Integers, Sequences, FiniteSets, TLC

VARIABLES
    \* configuration handed to analyze_transcriptions
    catalogue,      \* filtered_videos_map, in insertion order
    keywords,       \* the keyword list
    weights,        \* the weights mapping
    radius,         \* CONTEXT_LINES
    \* the batch loop
    pc,             \* position in analyze_transcriptions
    vidx,           \* index in catalogue of the video being processed (0: none yet)
    results,
    missing_transcriptions,
    transcriptions_with_no_keywords,
    processed_videos,
    missing_csv,    \* MISSING_TRANSCRIPT_CSV: None, or the rows written to it
    returned,       \* None until analyze_transcriptions returns, then its value
    \* locals of one pass of the loop body
    lines,
    parsed_lines,
    hits,
    merged,
    current_start,
    current_end,
    indexes_in_range,
    hpos,           \* position of the merge loop in hits
    wpos,           \* position of the scoring loop in merged
    kw_counts,      \* kw_counts of calculate_score for the window scored last
    last_score,     \* what calculate_score returned for the window scored last
    phases,         \* history: the phases the current video went through
    outcomes,       \* history: the terminal state each video reached, in order
    \* a single application of the keyword matcher
    m_text,
    m_kw,
    m_state,
    m_count,
    \* a single use of the timestamp codec: a start time formatted by the
    \* transcript writer, a timestamp text decoded by the analyzer
    t_start,
    t_text,
    t_seconds,
    t_state,
    \* a single application of the line parser
    p_line,
    p_parsed,
    p_state,
    \* a single application of sanitize_channel_handle, as the analyzer and
    \* as the downloader define it
    h_handle,
    h_analyzer,
    h_downloader,
    h_state,
    \* get_videos_for_playlists.py: the output CSV file, None while it does
    \* not exist, and the number of append_unique_videos_to_csv calls made
    csv_file,
    csv_calls,
    \* get_videos_for_playlists.py: the module-level cache, and the history
    \* of requests sent to the remote API, each with the kind of its response,
    \* of handles returned, and of lookups that raised
    channel_handle_cache,
    api_requests,
    handles_returned,
    lookups_raised,
    \* download_transcriptions.py: the input CSV rows, the transcript files
    \* on disk, the position of main, the number of download_transcript calls
    \* made so far and what main logged last
    d_rows,
    d_files,
    d_pc,
    d_row,
    d_run,
    d_requests,
    d_event

config_vars == <<catalogue, keywords, weights, radius>>
batch_vars == <<pc, vidx, results, missing_transcriptions,
                transcriptions_with_no_keywords, processed_videos,
                missing_csv, returned>>
local_vars == <<lines, parsed_lines, hits, merged, current_start, current_end,
                indexes_in_range, hpos, wpos, kw_counts, last_score>>
hist_vars == <<phases, outcomes>>
matcher_vars == <<m_text, m_kw, m_state, m_count>>
codec_vars == <<t_start, t_text, t_seconds, t_state>>
parser_vars == <<p_line, p_parsed, p_state>>
handle_vars == <<h_handle, h_analyzer, h_downloader, h_state>>
csv_vars == <<csv_file, csv_calls>>
cache_vars == <<channel_handle_cache, api_requests, handles_returned,
                lookups_raised>>
download_vars == <<d_rows, d_files, d_pc, d_row, d_run, d_requests, d_event>>
script_vars == <<handle_vars, csv_vars, cache_vars, download_vars>>
function_vars == <<matcher_vars, codec_vars, parser_vars, script_vars>>
vars == <<config_vars, batch_vars, local_vars, hist_vars, function_vars>>

None == <<>>
Some(x) == <<x>>
ValueOf(o) == o[1]

-----------------------------------------------------------------------------
(* Characters and strings                                                  *)

\* str.lower() on one character
LowerChar(c) ==
    CASE c = "A" -> "a"
      [] c = "B" -> "b"
      [] c = "D" -> "d"
      [] c = "E" -> "e"
      [] c = "F" -> "f"
      [] c = "G" -> "g"
      [] c = "I" -> "i"
      [] c = "K" -> "k"
      [] c = "N" -> "n"
      [] c = "O" -> "o"
      [] c = "R" -> "r"
      [] c = "S" -> "s"
      [] c = "T" -> "t"
      [] c = "V" -> "v"
      [] c = "Y" -> "y"
      [] OTHER -> c

\* str.lower()
Lower(s) == [i \in 1..Len(s) |-> LowerChar(s[i])]

\* the code point of a character
Ord(c) ==
    CASE c = "\n" -> 10
      [] c = " " -> 32
      [] c = "%" -> 37
      [] c = "&" -> 38
      [] c = "," -> 44
      [] c = "-" -> 45
      [] c = "." -> 46
      [] c = "/" -> 47
      [] c = "0" -> 48
      [] c = "1" -> 49
      [] c = "2" -> 50
      [] c = "3" -> 51
      [] c = "4" -> 52
      [] c = "5" -> 53
      [] c = "6" -> 54
      [] c = "7" -> 55
      [] c = "8" -> 56
      [] c = "9" -> 57
      [] c = ":" -> 58
      [] c = "=" -> 61
      [] c = "?" -> 63
      [] c = "A" -> 65
      [] c = "B" -> 66
      [] c = "K" -> 75
      [] c = "V" -> 86
      [] c = "[" -> 91
      [] c = "]" -> 93
      [] c = "a" -> 97
      [] c = "b" -> 98
      [] c = "c" -> 99
      [] c = "d" -> 100
      [] c = "e" -> 101
      [] c = "h" -> 104
      [] c = "k" -> 107
      [] c = "l" -> 108
      [] c = "m" -> 109
      [] c = "n" -> 110
      [] c = "o" -> 111
      [] c = "p" -> 112
      [] c = "r" -> 114
      [] c = "s" -> 115
      [] c = "t" -> 116
      [] c = "u" -> 117
      [] c = "v" -> 118
      [] c = "w" -> 119
      [] c = "x" -> 120
      [] c = "y" -> 121
      [] OTHER -> 0

\* the whitespace str.strip() removes
IsSpace(c) == c \in {" ", "\n", "\t", "\r"}

RECURSIVE LStrip(_)
LStrip(s) == IF s # <<>> /\ IsSpace(Head(s)) THEN LStrip(Tail(s)) ELSE s

RECURSIVE RStrip(_)
RStrip(s) ==
    IF s # <<>> /\ IsSpace(s[Len(s)]) THEN RStrip(SubSeq(s, 1, Len(s) - 1)) ELSE s

\* str.strip()
Strip(s) == RStrip(LStrip(s))

\* str.startswith(prefix)
StartsWith(s, prefix) ==
    Len(prefix) <= Len(s) /\ SubSeq(s, 1, Len(prefix)) = prefix

\* str.find(c) for a single character, 0-based, -1 when absent
Find(s, c) ==
    IF \E i \in 1..Len(s) : s[i] = c
    THEN (CHOOSE i \in 1..Len(s) : s[i] = c /\ \A j \in 1..(i - 1) : s[j] # c) - 1
    ELSE -1

\* str.count(sub): the non-overlapping occurrences of sub, scanning from the left
RECURSIVE CountFrom(_, _, _)
CountFrom(s, sub, i) ==
    IF i + Len(sub) - 1 > Len(s) THEN 0
    ELSE IF SubSeq(s, i, i + Len(sub) - 1) = sub
         THEN 1 + CountFrom(s, sub, i + Len(sub))
         ELSE CountFrom(s, sub, i + 1)

StrCount(s, sub) == IF sub = <<>> THEN Len(s) + 1 ELSE CountFrom(s, sub, 1)

\* sep.join(parts)
RECURSIVE Join(_, _)
Join(sep, parts) ==
    IF parts = <<>> THEN <<>>
    ELSE IF Len(parts) = 1 THEN parts[1]
    ELSE parts[1] \o sep \o Join(sep, Tail(parts))

\* str(n) for an integer
Digit(d) == <<"0", "1", "2", "3", "4", "5", "6", "7", "8", "9">>[d + 1]

RECURSIVE NatToStr(_)
NatToStr(n) == IF n < 10 THEN <<Digit(n)>> ELSE NatToStr(n \div 10) \o <<Digit(n % 10)>>

IntToStr(n) == IF n < 0 THEN <<"-">> \o NatToStr(-n) ELSE NatToStr(n)

\* the order of str under <, by code points
RECURSIVE StrLess(_, _)
StrLess(a, b) ==
    IF b = <<>> THEN FALSE
    ELSE IF a = <<>> THEN TRUE
    ELSE IF Ord(Head(a)) # Ord(Head(b)) THEN Ord(Head(a)) < Ord(Head(b))
    ELSE StrLess(Tail(a), Tail(b))

\* str.split(sep) for a single-character separator
RECURSIVE Split(_, _)
Split(s, sep) ==
    LET i == Find(s, sep)
    IN IF i = -1 THEN <<s>>
       ELSE <<SubSeq(s, 1, i)>> \o Split(SubSeq(s, i + 2, Len(s)), sep)

IsDigit(c) == c \in {"0", "1", "2", "3", "4", "5", "6", "7", "8", "9"}

RECURSIVE DigitsValue(_)
DigitsValue(s) ==
    IF s = <<>> THEN 0 ELSE 10 * DigitsValue(SubSeq(s, 1, Len(s) - 1)) + (Ord(s[Len(s)]) - 48)

\* int(s): surrounding whitespace and one sign are accepted; anything else
\* raises ValueError
IntBody(s) ==
    LET t == Strip(s)
    IN IF t # <<>> /\ Head(t) \in {"+", "-"} THEN Tail(t) ELSE t

IntValid(s) == IntBody(s) # <<>> /\ \A i \in 1..Len(IntBody(s)) : IsDigit(IntBody(s)[i])

IntOf(s) ==
    IF Strip(s) # <<>> /\ Head(Strip(s)) = "-"
    THEN 0 - DigitsValue(IntBody(s))
    ELSE DigitsValue(IntBody(s))

-----------------------------------------------------------------------------
(* Dictionaries: a sequence of <<key, value>> pairs in insertion order     *)

DictHas(d, k) == \E i \in 1..Len(d) : d[i][1] = k

\* a lookup that gives 0 for a key the dictionary does not hold
DictGetWithoutDefault(d, k, default) ==
    IF DictHas(d, k) THEN d[CHOOSE i \in 1..Len(d) : d[i][1] = k][2] ELSE 0

DictGet(d, k, default) ==
    IF DictHas(d, k) THEN d[CHOOSE i \in 1..Len(d) : d[i][1] = k][2] ELSE default

-----------------------------------------------------------------------------
(* The functions of analyze.py                                             *)

KEYWORD_KREDYT == <<"k", "r", "e", "d", "y", "t">>
KEYWORD_ZERO_PERCENT == <<"0", "%">>
KEYWORDS == <<KEYWORD_KREDYT, KEYWORD_ZERO_PERCENT>>
KEYWORD_CAPITAL_KREDYT == <<"K", "r", "e", "d", "y", "t">>
KEYWORD_WEIGHTS == <<<<KEYWORD_KREDYT, 2>>, <<KEYWORD_ZERO_PERCENT, 4>>>>
DEFAULT_WEIGHT == 2
CONTEXT_LINES == 5
LINE_JOIN_CHAR == <<"\n">>
DEFAULT_TIMESTAMP == <<"0", ":", "0", "0">>
WATCH_URL ==
    <<"h", "t", "t", "p", "s", ":", "/", "/", "w", "w", "w", ".", "y", "o", "u",
      "t", "u", "b", "e", ".", "c", "o", "m", "/", "w", "a", "t", "c", "h", "?",
      "v", "=">>

\* a parser that cuts at the last ']' of the line
ParseLineAtLastBracket(line_content) ==
    LET stripped == Strip(line_content)
        closing == IF \E i \in 1..Len(stripped) : stripped[i] = "]"
                   THEN CHOOSE i \in 1..Len(stripped) :
                            stripped[i] = "]" /\ \A j \in (i + 1)..Len(stripped) : stripped[j] # "]"
                   ELSE 0
    IN IF closing # 0 /\ StartsWith(stripped, <<"[">>)
       THEN <<SubSeq(stripped, 2, closing - 1),
              Strip(SubSeq(stripped, closing + 1, Len(stripped))),
              stripped>>
       ELSE <<<<>>, stripped, stripped>>

\* parse_line: <<timestamp_str, text_str, line_content>>
parse_line(line_content) ==
    LET stripped == Strip(line_content)
        closing_bracket_index == Find(stripped, "]")
    IN IF closing_bracket_index # -1 /\ StartsWith(stripped, <<"[">>)
       THEN <<SubSeq(stripped, 2, closing_bracket_index),
              Strip(SubSeq(stripped, closing_bracket_index + 2, Len(stripped))),
              stripped>>
       ELSE <<<<>>, stripped, stripped>>

\* a count of the keyword as a plain substring, without the leading spaces
CountSubstringOccurrences(text, kw) == StrCount(Lower(text), Lower(kw))

count_keyword_occurrences_in_line(text, kw) ==
    StrCount(<<" ">> \o Lower(text), <<" ">> \o Lower(kw))

\* the keys of {kw: 0 for kw in keywords}, in insertion order
DictKeys(kws) ==
    LET first == SelectSeq([j \in 1..Len(kws) |-> j],
                           LAMBDA j : \A i \in 1..(j - 1) : kws[i] # kws[j])
    IN [i \in 1..Len(first) |-> kws[first[i]]]

\* the passes of the inner loop, for kw in keywords, that add to counts[kw]
Passes(kw, kws) == Cardinality({j \in 1..Len(kws) : kws[j] = kw})

\* what the outer loop, for line_text in extended_lines, adds to counts[kw] in
\* one pass of the inner loop per line: the counts of the first n lines
RECURSIVE LineCounts(_, _, _)
LineCounts(extended_lines, kw, n) ==
    IF n = 0 THEN 0
    ELSE LineCounts(extended_lines, kw, n - 1)
             + count_keyword_occurrences_in_line(extended_lines[n], kw)

\* counts taken once over the newline-joined text of the lines
CountInJoinedText(extended_lines, kws) ==
    LET keys == DictKeys(kws)
    IN [i \in 1..Len(keys) |->
           <<keys[i],
             Passes(keys[i], kws)
                 * count_keyword_occurrences_in_line(Join(<<"\n">>, extended_lines),
                                                     keys[i])>>]

\* count_keywords_in_extended_lines: the dict counts when the loops end
count_keywords_in_extended_lines(extended_lines, kws) ==
    LET keys == DictKeys(kws)
    IN [i \in 1..Len(keys) |->
           <<keys[i],
             Passes(keys[i], kws) * LineCounts(extended_lines, keys[i], Len(extended_lines))>>]

\* a decoder that knows mm:ss only
TimestampWithoutHours(ts_str) ==
    LET parts == Split(ts_str, ":")
    IN IF ts_str # <<>> /\ Len(parts) = 2 /\ IntValid(parts[1]) /\ IntValid(parts[2])
       THEN IntOf(parts[1]) * 60 + IntOf(parts[2])
       ELSE 0

\* timestamp_to_seconds
timestamp_to_seconds(ts_str) ==
    LET parts == Split(ts_str, ":")
    IN IF ts_str = <<>> THEN 0
       ELSE IF Len(parts) = 2
       THEN IF IntValid(parts[1]) /\ IntValid(parts[2])
            THEN IntOf(parts[1]) * 60 + IntOf(parts[2])
            ELSE 0
       ELSE IF Len(parts) = 3
       THEN IF IntValid(parts[1]) /\ IntValid(parts[2]) /\ IntValid(parts[3])
            THEN IntOf(parts[1]) * 3600 + IntOf(parts[2]) * 60 + IntOf(parts[3])
            ELSE 0
       ELSE 0

\* a scoring loop that adds the counts without their weights
RECURSIVE ScoreLoopUnweighted(_, _, _, _)
ScoreLoopUnweighted(items, w, score, found_keywords) ==
    IF items = <<>> THEN <<score, found_keywords>>
    ELSE IF Head(items)[2] > 0
         THEN ScoreLoopUnweighted(Tail(items), w, score + 2 * Head(items)[2],
                                  Append(found_keywords, Head(items)[1]))
         ELSE ScoreLoopUnweighted(Tail(items), w, score, found_keywords)

\* the loop of calculate_score over kw_counts.items(): <<score, found_keywords>>
RECURSIVE ScoreLoop(_, _, _, _)
ScoreLoop(items, w, score, found_keywords) ==
    IF items = <<>> THEN <<score, found_keywords>>
    ELSE LET kw == Head(items)[1]
             cnt == Head(items)[2]
         IN IF cnt > 0
            THEN ScoreLoop(Tail(items), w,
                           score + cnt * DictGet(w, kw, DEFAULT_WEIGHT),
                           Append(found_keywords, kw))
            ELSE ScoreLoop(Tail(items), w, score, found_keywords)

calculate_score(extended_lines, kws, w) ==
    ScoreLoop(count_keywords_in_extended_lines(extended_lines, kws), w, 0, <<>>)

\* int(round(score, SCORE_DECIMALS)) of a score in halves, for the SCORE_DECIMALS
\* of the program, 0: round-half-to-even
RoundScore(score) ==
    LET q == score \div 2
    IN IF score % 2 = 0 THEN q
       ELSE IF q % 2 = 0 THEN q ELSE q + 1

\* sorted(found_keywords): insertion sort under the order of str
RECURSIVE InsertSorted(_, _)
InsertSorted(sorted, x) ==
    IF sorted = <<>> THEN <<x>>
    ELSE IF StrLess(x, Head(sorted)) THEN <<x>> \o sorted
    ELSE <<Head(sorted)>> \o InsertSorted(Tail(sorted), x)

\* the list left in the order it has
Unsorted(s) == s

RECURSIVE Sorted(_)
Sorted(s) == IF s = <<>> THEN <<>> ELSE InsertSorted(Sorted(SubSeq(s, 1, Len(s) - 1)), s[Len(s)])

max(a, b) == IF a >= b THEN a ELSE b
min(a, b) == IF a <= b THEN a ELSE b

-----------------------------------------------------------------------------
(* analyze_transcriptions                                                  *)

\* the data of the first video, whichever video is asked for
FirstVideo(v) == catalogue[1]

Video(v) == catalogue[v]

\* a test that asks for every keyword in the line
FoundEveryKeyword(text_str, kws) ==
    \A j \in 1..Len(kws) : count_keyword_occurrences_in_line(text_str, kws[j]) > 0

\* found_any for one parsed line
found_any(text_str, kws) ==
    \E j \in 1..Len(kws) : count_keyword_occurrences_in_line(text_str, kws[j]) > 0

\* a candidate whose end is not clipped to the last line
CandidateUnclipped(i, n, R) == <<max(0, i - R), i + R, i>>

\* a candidate without the lines before the hit
CandidateFromHit(i, n, R) == <<i, min(n - 1, i + R), i>>

\* the candidate window of a hit at line i
Candidate(i, n, R) == <<max(0, i - R), min(n - 1, i + R), i>>

\* the scanning loop: one candidate per trigger line, top to bottom
ScanLines(pl, kws, R) ==
    LET idx == [k \in 1..Len(pl) |-> k - 1]
        trig == SelectSeq(idx, LAMBDA i : found_any(pl[i + 1][2], kws))
    IN [j \in 1..Len(trig) |-> Candidate(trig[j], Len(pl), R)]

\* hits.sort(key=lambda x: x[0]): a stable sort by start
RECURSIVE InsertByStart(_, _)
InsertByStart(sorted, h) ==
    IF sorted = <<>> THEN <<h>>
    ELSE IF h[1] < Head(sorted)[1] THEN <<h>> \o sorted
    ELSE <<Head(sorted)>> \o InsertByStart(Tail(sorted), h)

RECURSIVE SortByStart(_)
SortByStart(hs) ==
    IF hs = <<>> THEN <<>>
    ELSE InsertByStart(SortByStart(SubSeq(hs, 1, Len(hs) - 1)), hs[Len(hs)])

\* a merge test that joins windows across one line that lies in neither
MergeTestAcrossOneLine(s, cur_end) == s <= cur_end + 2

\* a merge test that joins overlapping windows only
MergeTestOverlapOnly(s, cur_end) == s <= cur_end

\* the merge test of the loop
MergeTest(s, cur_end) == s <= cur_end + 1

\* a merge that keeps the end of the open window
MergedEndKeepsOld(cur_end, e) == cur_end

\* the end of the open window after a merge
MergedEnd(cur_end, e) == max(cur_end, e)

\* the entry appended for a transcript file that does not exist
MissingEntry(v) ==
    [kind |-> "dict",
     value |-> [videoId |-> Video(v).videoId,
                channelHandle |-> Video(v).channelHandle,
                publishedAt |-> Video(v).publishedAt]]

\* the entry appended for a transcript file that cannot be read
UnreadableEntry(v) == [kind |-> "str", value |-> Video(v).videoId]

\* an excerpt whose link points at the time of the window's last line
ExcerptLinkedToEnd(v, pl, window, kws, w) ==
    LET s == window[1]
        e == window[2]
        extended_texts == [k \in 1..(e - s + 1) |-> pl[s + k][2]]
        timestamp_start == IF pl[s + 1][1] # <<>> THEN pl[s + 1][1] ELSE DEFAULT_TIMESTAMP
        timestamp_end == IF pl[e + 1][1] # <<>> THEN pl[e + 1][1] ELSE DEFAULT_TIMESTAMP
        scored == calculate_score(extended_texts, kws, w)
        start_seconds == timestamp_to_seconds(timestamp_start)
        end_seconds == timestamp_to_seconds(timestamp_end)
    IN [videoId |-> Video(v).videoId,
        guest |-> Video(v).guest,
        publishedAt |-> Video(v).publishedAt,
        keywords_found |-> Join(<<",", " ">>, Sorted(scored[2])),
        timestamp_start |-> timestamp_start,
        timestamp_end |-> timestamp_end,
        length_seconds |-> max(0, end_seconds - start_seconds),
        transcription_lines |-> Join(LINE_JOIN_CHAR, extended_texts),
        score |-> RoundScore(scored[1]),
        youtube_link |-> WATCH_URL \o Video(v).videoId \o <<"&", "t", "=">>
                             \o IntToStr(end_seconds) \o <<"s">>]

\* an excerpt whose length is the plain difference of the two times
ExcerptUnclampedLength(v, pl, window, kws, w) ==
    LET s == window[1]
        e == window[2]
        extended_texts == [k \in 1..(e - s + 1) |-> pl[s + k][2]]
        timestamp_start == IF pl[s + 1][1] # <<>> THEN pl[s + 1][1] ELSE DEFAULT_TIMESTAMP
        timestamp_end == IF pl[e + 1][1] # <<>> THEN pl[e + 1][1] ELSE DEFAULT_TIMESTAMP
        scored == calculate_score(extended_texts, kws, w)
        start_seconds == timestamp_to_seconds(timestamp_start)
        end_seconds == timestamp_to_seconds(timestamp_end)
    IN [videoId |-> Video(v).videoId,
        guest |-> Video(v).guest,
        publishedAt |-> Video(v).publishedAt,
        keywords_found |-> Join(<<",", " ">>, Sorted(scored[2])),
        timestamp_start |-> timestamp_start,
        timestamp_end |-> timestamp_end,
        length_seconds |-> end_seconds - start_seconds,
        transcription_lines |-> Join(LINE_JOIN_CHAR, extended_texts),
        score |-> RoundScore(scored[1]),
        youtube_link |-> WATCH_URL \o Video(v).videoId \o <<"&", "t", "=">>
                             \o IntToStr(start_seconds) \o <<"s">>]

\* one excerpt: the record appended to results for the window <<s, e, idx_list>>
Excerpt(v, pl, window, kws, w) ==
    LET s == window[1]
        e == window[2]
        extended_texts == [k \in 1..(e - s + 1) |-> pl[s + k][2]]
        timestamp_start == IF pl[s + 1][1] # <<>> THEN pl[s + 1][1] ELSE DEFAULT_TIMESTAMP
        timestamp_end == IF pl[e + 1][1] # <<>> THEN pl[e + 1][1] ELSE DEFAULT_TIMESTAMP
        scored == calculate_score(extended_texts, kws, w)
        start_seconds == timestamp_to_seconds(timestamp_start)
        end_seconds == timestamp_to_seconds(timestamp_end)
    IN [videoId |-> Video(v).videoId,
        guest |-> Video(v).guest,
        publishedAt |-> Video(v).publishedAt,
        keywords_found |-> Join(<<",", " ">>, Sorted(scored[2])),
        timestamp_start |-> timestamp_start,
        timestamp_end |-> timestamp_end,
        length_seconds |-> max(0, end_seconds - start_seconds),
        transcription_lines |-> Join(LINE_JOIN_CHAR, extended_texts),
        score |-> RoundScore(scored[1]),
        youtube_link |-> WATCH_URL \o Video(v).videoId \o <<"&", "t", "=">>
                             \o IntToStr(start_seconds) \o <<"s">>]

\* the rows csv.DictWriter.writerows writes before a row that is no dict stops it
RECURSIVE RowsWritten(_)
RowsWritten(entries) ==
    IF entries = <<>> \/ Head(entries).kind # "dict" THEN <<>>
    ELSE <<Head(entries).value>> \o RowsWritten(Tail(entries))

NoLocals ==
    /\ lines = <<>>
    /\ parsed_lines = <<>>
    /\ hits = <<>>
    /\ merged = <<>>
    /\ current_start = None
    /\ current_end = None
    /\ indexes_in_range = <<>>
    /\ hpos = 0
    /\ wpos = 0
    /\ kw_counts = None
    /\ last_score = None

\* the locals of the loop body are all assigned before they are read again, so
\* the values a pass leaves behind are dropped when the pass ends
ClearLocals ==
    /\ lines' = <<>>
    /\ parsed_lines' = <<>>
    /\ hits' = <<>>
    /\ merged' = <<>>
    /\ current_start' = None
    /\ current_end' = None
    /\ indexes_in_range' = <<>>
    /\ hpos' = 0
    /\ wpos' = 0
    /\ kw_counts' = None
    /\ last_score' = None

Enter(phase) == phases' = [phases EXCEPT ![vidx] = Append(@, phase)]
Halt(outcome) == outcomes' = [outcomes EXCEPT ![vidx] = Append(@, outcome)]

\* for video_id, data in filtered_videos_map.items(): the next video
StartVideo ==
    /\ pc = "loop"
    /\ vidx < Len(catalogue)
    /\ vidx' = vidx + 1
    /\ pc' = "exists"
    /\ phases' = [phases EXCEPT ![vidx + 1] = Append(@, "START")]
    /\ UNCHANGED <<results, missing_transcriptions, transcriptions_with_no_keywords,
                   processed_videos, missing_csv, returned>>
    /\ UNCHANGED <<config_vars, local_vars, outcomes, function_vars>>

\* if not os.path.exists(transcription_file): ... continue
MissingFile ==
    /\ pc = "exists"
    /\ Video(vidx).file = "absent"
    /\ missing_transcriptions' = Append(missing_transcriptions, MissingEntry(vidx))
    /\ pc' = "loop"
    /\ Halt("DONE_MISSING")
    /\ UNCHANGED <<vidx, results, transcriptions_with_no_keywords, processed_videos,
                   missing_csv, returned>>
    /\ UNCHANGED <<config_vars, local_vars, phases, function_vars>>

\* an unreadable file recorded without leaving the pass of the loop
UnreadableFileFallsThrough ==
    /\ pc = "exists"
    /\ Video(vidx).file = "unreadable"
    /\ missing_transcriptions' = Append(missing_transcriptions, UnreadableEntry(vidx))
    /\ pc' = "parse"
    /\ Halt("DONE_MISSING")
    /\ UNCHANGED <<vidx, results, transcriptions_with_no_keywords, processed_videos,
                   missing_csv, returned>>
    /\ UNCHANGED <<config_vars, local_vars, phases, function_vars>>

\* an unreadable file whose exception leaves analyze_transcriptions
UnreadableFileAborts ==
    /\ pc = "exists"
    /\ Video(vidx).file = "unreadable"
    /\ pc' = "raised"
    /\ UNCHANGED <<vidx, results, missing_transcriptions,
                   transcriptions_with_no_keywords, processed_videos, missing_csv,
                   returned>>
    /\ UNCHANGED <<config_vars, local_vars, hist_vars, function_vars>>

\* except Exception: ... continue
UnreadableFile ==
    /\ pc = "exists"
    /\ Video(vidx).file = "unreadable"
    /\ missing_transcriptions' = Append(missing_transcriptions, UnreadableEntry(vidx))
    /\ pc' = "loop"
    /\ Halt("DONE_MISSING")
    /\ UNCHANGED <<vidx, results, transcriptions_with_no_keywords, processed_videos,
                   missing_csv, returned>>
    /\ UNCHANGED <<config_vars, local_vars, phases, function_vars>>

\* lines = f.readlines()
ReadFile ==
    /\ pc = "exists"
    /\ Video(vidx).file = "ok"
    /\ lines' = Video(vidx).content
    /\ pc' = "parse"
    /\ Enter("PARSING_LINES")
    /\ UNCHANGED <<vidx, results, missing_transcriptions,
                   transcriptions_with_no_keywords, processed_videos, missing_csv,
                   returned>>
    /\ UNCHANGED <<parsed_lines, hits, merged, current_start, current_end,
                   indexes_in_range, hpos, wpos, kw_counts, last_score>>
    /\ UNCHANGED <<config_vars, outcomes, function_vars>>

\* for line_content in lines: parsed_lines.append(parse_line(line_content))
ParseLines ==
    /\ pc = "parse"
    /\ parsed_lines' = [k \in 1..Len(lines) |-> parse_line(lines[k])]
    /\ pc' = "scan"
    /\ Enter("SCANNING_HITS")
    /\ UNCHANGED <<vidx, results, missing_transcriptions,
                   transcriptions_with_no_keywords, processed_videos, missing_csv,
                   returned>>
    /\ UNCHANGED <<lines, hits, merged, current_start, current_end,
                   indexes_in_range, hpos, wpos, kw_counts, last_score>>
    /\ UNCHANGED <<config_vars, outcomes, function_vars>>

\* for i, (...) in enumerate(parsed_lines): ... hits.append((start_idx, end_idx, i))
ScanHits ==
    /\ pc = "scan"
    /\ hits' = ScanLines(parsed_lines, keywords, radius)
    /\ pc' = "hits"
    /\ UNCHANGED <<vidx, results, missing_transcriptions,
                   transcriptions_with_no_keywords, processed_videos, missing_csv,
                   returned>>
    /\ UNCHANGED <<lines, parsed_lines, merged, current_start, current_end,
                   indexes_in_range, hpos, wpos, kw_counts, last_score>>
    /\ UNCHANGED <<config_vars, hist_vars, function_vars>>

\* a transcript without hits recorded as a missing one
NoHitsRecordedMissing ==
    /\ pc = "hits"
    /\ hits = <<>>
    /\ missing_transcriptions' = Append(missing_transcriptions, MissingEntry(vidx))
    /\ pc' = "loop"
    /\ Halt("DONE_EMPTY")
    /\ ClearLocals
    /\ UNCHANGED <<vidx, results, transcriptions_with_no_keywords, processed_videos,
                   missing_csv, returned>>
    /\ UNCHANGED <<config_vars, phases, function_vars>>

\* if not hits: transcriptions_with_no_keywords += 1; continue
NoHits ==
    /\ pc = "hits"
    /\ hits = <<>>
    /\ transcriptions_with_no_keywords' = transcriptions_with_no_keywords + 1
    /\ pc' = "loop"
    /\ Halt("DONE_EMPTY")
    /\ ClearLocals
    /\ UNCHANGED <<vidx, results, missing_transcriptions, processed_videos,
                   missing_csv, returned>>
    /\ UNCHANGED <<config_vars, phases, function_vars>>

\* hits.sort(...); merged = []; current_start, current_end = None, None
SortHits ==
    /\ pc = "hits"
    /\ hits # <<>>
    /\ hits' = SortByStart(hits)
    /\ merged' = <<>>
    /\ current_start' = None
    /\ current_end' = None
    /\ indexes_in_range' = <<>>
    /\ hpos' = 1
    /\ pc' = "merge"
    /\ Enter("MERGING")
    /\ UNCHANGED <<vidx, results, missing_transcriptions,
                   transcriptions_with_no_keywords, processed_videos, missing_csv,
                   returned>>
    /\ UNCHANGED <<lines, parsed_lines, wpos, kw_counts, last_score>>
    /\ UNCHANGED <<config_vars, outcomes, function_vars>>

MergeFrame ==
    /\ hpos' = hpos + 1
    /\ UNCHANGED <<pc, vidx, results, missing_transcriptions,
                   transcriptions_with_no_keywords, processed_videos, missing_csv,
                   returned>>
    /\ UNCHANGED <<lines, parsed_lines, hits, wpos, kw_counts, last_score>>
    /\ UNCHANGED <<config_vars, hist_vars, function_vars>>

\* one pass of the merge loop with no window open
MergeOpen ==
    /\ pc = "merge"
    /\ hpos <= Len(hits)
    /\ current_start = None
    /\ current_start' = Some(hits[hpos][1])
    /\ current_end' = Some(hits[hpos][2])
    /\ indexes_in_range' = <<hits[hpos][3]>>
    /\ UNCHANGED merged
    /\ MergeFrame

\* one pass of the merge loop that extends the open window
MergeExtend ==
    /\ pc = "merge"
    /\ hpos <= Len(hits)
    /\ current_start # None
    /\ MergeTest(hits[hpos][1], ValueOf(current_end))
    /\ current_end' = Some(MergedEnd(ValueOf(current_end), hits[hpos][2]))
    /\ indexes_in_range' = Append(indexes_in_range, hits[hpos][3])
    /\ UNCHANGED <<merged, current_start>>
    /\ MergeFrame

\* one pass of the merge loop that emits the open window and opens the next
MergeClose ==
    /\ pc = "merge"
    /\ hpos <= Len(hits)
    /\ current_start # None
    /\ ~MergeTest(hits[hpos][1], ValueOf(current_end))
    /\ merged' = Append(merged, <<ValueOf(current_start), ValueOf(current_end),
                                  indexes_in_range>>)
    /\ current_start' = Some(hits[hpos][1])
    /\ current_end' = Some(hits[hpos][2])
    /\ indexes_in_range' = <<hits[hpos][3]>>
    /\ MergeFrame

\* if current_start is not None: merged.append(...)
Flush ==
    /\ pc = "merge"
    /\ hpos > Len(hits)
    /\ merged' = IF current_start # None
                 THEN Append(merged, <<ValueOf(current_start), ValueOf(current_end),
                                       indexes_in_range>>)
                 ELSE merged
    /\ wpos' = 1
    /\ pc' = "score"
    /\ Enter("SCORING_EACH_WINDOW")
    /\ UNCHANGED <<vidx, results, missing_transcriptions,
                   transcriptions_with_no_keywords, processed_videos, missing_csv,
                   returned>>
    /\ UNCHANGED <<lines, parsed_lines, hits, current_start, current_end,
                   indexes_in_range, hpos, kw_counts, last_score>>
    /\ UNCHANGED <<config_vars, outcomes, function_vars>>

\* one pass of: for (s, e, idx_list) in merged: ... results.append({...})
ScoreWindow ==
    /\ pc = "score"
    /\ wpos <= Len(merged)
    /\ LET window == merged[wpos]
           extended_texts ==
               [k \in 1..(window[2] - window[1] + 1) |-> parsed_lines[window[1] + k][2]]
       IN /\ kw_counts' = Some(count_keywords_in_extended_lines(extended_texts, keywords))
          /\ last_score' = Some(calculate_score(extended_texts, keywords, weights))
          /\ results' = Append(results,
                               Excerpt(vidx, parsed_lines, window, keywords, weights))
    /\ wpos' = wpos + 1
    /\ UNCHANGED <<pc, vidx, missing_transcriptions, transcriptions_with_no_keywords,
                   processed_videos, missing_csv, returned>>
    /\ UNCHANGED <<lines, parsed_lines, hits, merged, current_start, current_end,
                   indexes_in_range, hpos>>
    /\ UNCHANGED <<config_vars, hist_vars, function_vars>>

\* processed_videos += 1
CountProcessed ==
    /\ pc = "score"
    /\ wpos > Len(merged)
    /\ processed_videos' = processed_videos + 1
    /\ pc' = "loop"
    /\ Halt("DONE_WITH_RESULTS")
    /\ ClearLocals
    /\ UNCHANGED <<vidx, results, missing_transcriptions,
                   transcriptions_with_no_keywords, missing_csv, returned>>
    /\ UNCHANGED <<config_vars, phases, function_vars>>

\* after the loop: the summary, the missing-transcripts file, return results.
\* The file is written inside try/except: opening it may fail, and a row that
\* is no dict raises in writerows after the rows before it were written.
Summary ==
    /\ pc = "loop"
    /\ vidx = Len(catalogue)
    /\ \E opened \in BOOLEAN :
           missing_csv' = IF missing_transcriptions # <<>> /\ opened
                          THEN Some(RowsWritten(missing_transcriptions))
                          ELSE missing_csv
    /\ returned' = Some(results)
    /\ pc' = "done"
    /\ UNCHANGED <<vidx, results, missing_transcriptions,
                   transcriptions_with_no_keywords, processed_videos>>
    /\ UNCHANGED <<config_vars, local_vars, hist_vars, function_vars>>

Next ==
    \/ StartVideo
    \/ MissingFile
    \/ UnreadableFile
    \/ ReadFile
    \/ ParseLines
    \/ ScanHits
    \/ NoHits
    \/ SortHits
    \/ MergeOpen
    \/ MergeExtend
    \/ MergeClose
    \/ Flush
    \/ ScoreWindow
    \/ CountProcessed
    \/ Summary

-----------------------------------------------------------------------------
(* The transcript files the analyzer reads, as download_transcriptions.py  *)
(* writes them                                                             *)

\* a writer that puts the whole seconds after the minutes
FormatTimeWholeSeconds(start_time) ==
    NatToStr(start_time \div 60) \o <<":">>
        \o (IF start_time < 10 THEN <<"0">> ELSE <<>>) \o NatToStr(start_time)

\* f"{minutes}:{seconds:02d}" of save_transcript
FormatTime(start_time) ==
    LET minutes == start_time \div 60
        seconds == start_time % 60
    IN NatToStr(minutes) \o <<":">>
           \o (IF seconds < 10 THEN <<"0">> ELSE <<>>) \o NatToStr(seconds)

\* f"[{formatted_time}] {entry['text']}" of save_transcript
TranscriptLine(start_time, text) ==
    <<"[">> \o FormatTime(start_time) \o <<"]", " ">> \o text

\* readlines() of a file holding "\n".join(lines): every line but the last
\* ends with its newline
FileLines(ls) ==
    [k \in 1..Len(ls) |-> IF k < Len(ls) THEN ls[k] \o <<"\n">> ELSE ls[k]]

-----------------------------------------------------------------------------
(* Bounds and the inputs drawn from them                                   *)

MaxVideos == 3
MaxLines == 15
MaxHits == 3
MaxTextLen == 5
MaxKwLen == 2
MaxStampLen == 5
MaxSeconds == 3599
MaxLineLen == 5
MaxOddLines == 3

TextHello == <<"h", "e", "l", "l", "o">>
TextMoreText == <<"m", "o", "r", "e", " ", "t", "e", "x", "t">>
TextDiscount == <<"a", "n", "d", " ", "5", "0", "%", " ", "o", "f", "f">>
TextKredytNow == <<"k", "r", "e", "d", "y", "t", " ", "n", "o", "w">>
TextZeroKredytZero == <<"0", "%", " ", "K", "r", "e", "d", "y", "t", " ", "0", "%">>

\* texts without a keyword occurrence, and texts with one
PlainTexts == <<TextHello, TextDiscount, TextMoreText>>
HitTexts == <<TextZeroKredytZero, TextKredytNow>>

\* a transcript of n lines, one every five seconds, whose lines H
\* (0-based) hold keywords
Transcript(n, H) ==
    FileLines([k \in 1..n |->
        TranscriptLine(5 * (k - 1),
                       IF (k - 1) \in H
                       THEN HitTexts[((k - 1) % Len(HitTexts)) + 1]
                       ELSE PlainTexts[((k - 1) % Len(PlainTexts)) + 1])])

MergeTranscripts ==
    {Transcript(n, H) : <<n, H>> \in
        {<<n, H>> \in (0..MaxLines) \X {H \in SUBSET (0..(MaxLines - 1)) :
                                            Cardinality(H) <= MaxHits} :
            \A i \in H : i < n}}

BatchTranscripts ==
    {Transcript(0, {}), Transcript(2, {}), Transcript(2, {0}), Transcript(3, {1}),
     Transcript(5, {0, 4})}

VideoId(k) == <<"V", Digit(k)>>

FileChoices(transcripts) ==
    {[file |-> "absent", content |-> <<>>], [file |-> "unreadable", content |-> <<>>]}
        \cup {[file |-> "ok", content |-> t] : t \in transcripts}

\* the catalogue entry of video k, as load_filtered_videos builds it, with the
\* state of its transcript file
CatalogueEntry(k, f) ==
    [videoId |-> VideoId(k),
     channelHandle |-> <<"c", "h">>,
     guest |-> <<"c", "h", " ", "g">>,
     publishedAt |-> <<"2", "0", "2", "4">>,
     file |-> f.file,
     content |-> f.content]

\* the orders in which the catalogue lists its videos: by id, up or down
IdOrders(n) == {[k \in 1..n |-> k], [k \in 1..n |-> n + 1 - k]}

Catalogues(n, transcripts) ==
    {[k \in 1..n |-> CatalogueEntry(ids[k], fs[k])] :
        fs \in [1..n -> FileChoices(transcripts)], ids \in IdOrders(n)}

\* keyword list, weights, context radius
ProgramConfig == <<KEYWORDS, KEYWORD_WEIGHTS, CONTEXT_LINES>>
SingleKeywordConfig == <<<<KEYWORD_KREDYT>>, <<<<KEYWORD_KREDYT, 2>>>>, CONTEXT_LINES>>
NarrowConfig == <<KEYWORDS, KEYWORD_WEIGHTS, 1>>
RepeatedKeywordConfig ==
    <<<<KEYWORD_KREDYT, KEYWORD_ZERO_PERCENT, KEYWORD_KREDYT>>, KEYWORD_WEIGHTS,
      CONTEXT_LINES>>
\* a weights mapping without the keyword "kredyt"
PartialWeightsConfig == <<KEYWORDS, <<<<KEYWORD_ZERO_PERCENT, 4>>>>, CONTEXT_LINES>>
\* the keyword "Kredyt" under the weights mapping {"kredyt": 2.0}
CapitalKeywordConfig ==
    <<<<KEYWORD_CAPITAL_KREDYT>>, <<<<KEYWORD_KREDYT, 4>>>>, CONTEXT_LINES>>
BatchConfigs ==
    {ProgramConfig, SingleKeywordConfig, NarrowConfig, RepeatedKeywordConfig,
     PartialWeightsConfig, CapitalKeywordConfig}
Radii == {0, 1, CONTEXT_LINES}

MatcherAlphabet == {"a", "A", "b", " "}
Texts(n) == UNION {[1..k -> MatcherAlphabet] : k \in 0..n}

\* the letter U+00DF (sharp s) as one character: str.lower() leaves it as it
\* is, str.upper() makes it "SS"
SHARP_S == "U+00DF"

TextFiftyPercent == <<"5", "0", "%">>
TextKredytIsGood ==
    <<"K", "r", "e", "d", "y", "t", " ", "i", "s", " ", "g", "o", "o", "d">>

\* texts and keywords of the program's domain, next to those over the alphabet
MatcherExampleTexts ==
    {TextFiftyPercent, TextDiscount, TextKredytIsGood, <<SHARP_S>>, <<"S", "S">>}
MatcherExampleKeywords == {KEYWORD_KREDYT, KEYWORD_ZERO_PERCENT, <<SHARP_S>>}

InitBatchState ==
    /\ pc = "loop"
    /\ vidx = 0
    /\ results = <<>>
    /\ missing_transcriptions = <<>>
    /\ transcriptions_with_no_keywords = 0
    /\ processed_videos = 0
    /\ missing_csv = None
    /\ returned = None
    /\ NoLocals
    /\ phases = [v \in 1..Len(catalogue) |-> <<>>]
    /\ outcomes = [v \in 1..Len(catalogue) |-> <<>>]

MatcherUnused ==
    /\ m_text = <<>>
    /\ m_kw = <<>>
    /\ m_state = "unused"
    /\ m_count = 0

CodecUnused ==
    /\ t_start = 0
    /\ t_text = <<>>
    /\ t_seconds = None
    /\ t_state = "unused"

ParserUnused ==
    /\ p_line = <<>>
    /\ p_parsed = None
    /\ p_state = "unused"

HandleUnused ==
    /\ h_handle = <<>>
    /\ h_analyzer = None
    /\ h_downloader = None
    /\ h_state = "unused"

CsvUnused ==
    /\ csv_file = None
    /\ csv_calls = 0

CacheUnused ==
    /\ channel_handle_cache = <<>>
    /\ api_requests = <<>>
    /\ handles_returned = <<>>
    /\ lookups_raised = <<>>

DownloadUnused ==
    /\ d_rows = <<>>
    /\ d_files = {}
    /\ d_pc = "idle"
    /\ d_row = 0
    /\ d_run = 0
    /\ d_requests = 0
    /\ d_event = "none"

ScriptsUnused ==
    /\ HandleUnused
    /\ CsvUnused
    /\ CacheUnused
    /\ DownloadUnused

\* no batch is run
BatchUnused ==
    /\ catalogue = <<>>
    /\ keywords = <<>>
    /\ weights = <<>>
    /\ radius = CONTEXT_LINES
    /\ pc = "idle"
    /\ vidx = 0
    /\ results = <<>>
    /\ missing_transcriptions = <<>>
    /\ transcriptions_with_no_keywords = 0
    /\ processed_videos = 0
    /\ missing_csv = None
    /\ returned = None
    /\ NoLocals
    /\ phases = <<>>
    /\ outcomes = <<>>

\* a batch over a catalogue of up to MaxVideos videos, listed by id upwards
\* under every configuration and also downwards under that of the program
Init ==
    /\ catalogue \in UNION {Catalogues(n, BatchTranscripts) : n \in 1..MaxVideos}
    /\ \E c \in BatchConfigs :
           /\ keywords = c[1]
           /\ weights = c[2]
           /\ radius = c[3]
           /\ catalogue[1].videoId # VideoId(1) => c = ProgramConfig
    /\ InitBatchState
    /\ MatcherUnused
    /\ CodecUnused
    /\ ParserUnused
    /\ ScriptsUnused

Spec == Init /\ [][Next]_vars

\* a batch over one video whose transcript has up to MaxLines lines, up to
\* MaxHits of them with keywords, under the keywords of the program
InitMerge ==
    /\ catalogue \in Catalogues(1, MergeTranscripts)
    /\ keywords = KEYWORDS
    /\ weights = KEYWORD_WEIGHTS
    /\ radius \in Radii
    /\ InitBatchState
    /\ MatcherUnused
    /\ CodecUnused
    /\ ParserUnused
    /\ ScriptsUnused

SpecMerge == InitMerge /\ [][Next]_vars

\* the longest transcript of SpecWindows
MaxWindowLines == 6

\* the transcripts of up to MaxWindowLines lines, with keywords in any of
\* their lines
WindowTranscripts ==
    {Transcript(n, H) : <<n, H>> \in
        {<<n, H>> \in (0..MaxWindowLines) \X SUBSET (0..(MaxWindowLines - 1)) :
            \A i \in H : i < n}}

\* a batch over one video whose transcript has keywords in any of its lines
InitWindows ==
    /\ catalogue \in Catalogues(1, WindowTranscripts)
    /\ keywords = KEYWORDS
    /\ weights = KEYWORD_WEIGHTS
    /\ radius \in Radii
    /\ InitBatchState
    /\ MatcherUnused
    /\ CodecUnused
    /\ ParserUnused
    /\ ScriptsUnused

SpecWindows == InitWindows /\ [][Next]_vars

\* what a line of a transcript file may begin with: nothing (the later lines
\* of a caption of several lines), a bracket that holds no time, a time
StampKinds ==
    {None, Some(<<"b", "a", "d">>), Some(<<"0", ":", "0", "5">>),
     Some(<<"0", ":", "1", "0">>)}

OddLine(stamp, hit) ==
    (IF stamp = None THEN <<>> ELSE <<"[">> \o ValueOf(stamp) \o <<"]", " ">>)
        \o (IF hit THEN TextKredytNow ELSE TextHello)

\* files of up to MaxOddLines lines whose times may be missing, unreadable
\* or out of order
OddTranscripts ==
    UNION {{FileLines([k \in 1..n |-> OddLine(stamps[k], hit[k])]) :
               stamps \in [1..n -> StampKinds], hit \in [1..n -> BOOLEAN]} :
           n \in 1..MaxOddLines}

\* a batch over one video whose transcript has such lines
InitOddTimes ==
    /\ catalogue \in Catalogues(1, OddTranscripts)
    /\ keywords = KEYWORDS
    /\ weights = KEYWORD_WEIGHTS
    /\ radius \in Radii
    /\ InitBatchState
    /\ MatcherUnused
    /\ CodecUnused
    /\ ParserUnused
    /\ ScriptsUnused

SpecOddTimes == InitOddTimes /\ [][Next]_vars

\* one application of the keyword matcher to a text and a keyword
InitMatcher ==
    /\ m_text \in Texts(MaxTextLen) \cup MatcherExampleTexts
    /\ m_kw \in Texts(MaxKwLen) \cup MatcherExampleKeywords
    /\ m_state = "ready"
    /\ m_count = 0
    /\ BatchUnused
    /\ CodecUnused
    /\ ParserUnused
    /\ ScriptsUnused

ApplyMatcher ==
    /\ m_state = "ready"
    /\ m_count' = count_keyword_occurrences_in_line(m_text, m_kw)
    /\ m_state' = "counted"
    /\ UNCHANGED <<m_text, m_kw>>
    /\ UNCHANGED <<config_vars, batch_vars, local_vars, hist_vars, codec_vars, parser_vars,
                 script_vars>>

NextMatcher == ApplyMatcher

SpecMatcher == InitMatcher /\ [][NextMatcher]_vars

StampAlphabet == {"1", "5", ":", "b", "-", " "}
StampExamples ==
    {<<"1", ":", "0", "5">>, <<"1", ":", "0", "2", ":", "0", "3">>,
     <<"b", "a", "d", ":", "v", "a", "l">>, <<"1", ":", "2", ":", "3", ":", "4">>}

\* one application of timestamp_to_seconds to a text
InitTimestamp ==
    /\ t_text \in UNION {[1..k -> StampAlphabet] : k \in 0..MaxStampLen} \cup StampExamples
    /\ t_start = 0
    /\ t_seconds = None
    /\ t_state = "text"
    /\ BatchUnused
    /\ MatcherUnused
    /\ ParserUnused
    /\ ScriptsUnused

DecodeTime ==
    /\ t_state = "text"
    /\ t_seconds' = Some(timestamp_to_seconds(t_text))
    /\ t_state' = "decoded"
    /\ UNCHANGED <<t_start, t_text>>
    /\ UNCHANGED <<config_vars, batch_vars, local_vars, hist_vars, matcher_vars, parser_vars,
                 script_vars>>

NextTimestamp == DecodeTime

SpecTimestamp == InitTimestamp /\ [][NextTimestamp]_vars

LineAlphabet == {"[", "]", "a", " ", "\n"}
LineExamples == {TranscriptLine(5, TextKredytNow) \o <<"\n">>}

\* one application of parse_line to a line
InitParseLine ==
    /\ p_line \in UNION {[1..k -> LineAlphabet] : k \in 0..MaxLineLen} \cup LineExamples
    /\ p_parsed = None
    /\ p_state = "line"
    /\ BatchUnused
    /\ MatcherUnused
    /\ CodecUnused
    /\ ScriptsUnused

ApplyParseLine ==
    /\ p_state = "line"
    /\ p_parsed' = Some(parse_line(p_line))
    /\ p_state' = "parsed"
    /\ UNCHANGED p_line
    /\ UNCHANGED <<config_vars, batch_vars, local_vars, hist_vars, matcher_vars, codec_vars,
                 script_vars>>

NextParseLine == ApplyParseLine

SpecParseLine == InitParseLine /\ [][NextParseLine]_vars

\* a start time written by save_transcript and read back by the analyzer
InitRoundTrip ==
    /\ t_start \in 0..MaxSeconds
    /\ t_text = <<>>
    /\ t_seconds = None
    /\ t_state = "start"
    /\ BatchUnused
    /\ MatcherUnused
    /\ ParserUnused
    /\ ScriptsUnused

WriteTime ==
    /\ t_state = "start"
    /\ t_text' = FormatTime(t_start)
    /\ t_state' = "text"
    /\ UNCHANGED <<t_start, t_seconds>>
    /\ UNCHANGED <<config_vars, batch_vars, local_vars, hist_vars, matcher_vars, parser_vars,
                 script_vars>>

NextRoundTrip == WriteTime \/ DecodeTime

SpecRoundTrip == InitRoundTrip /\ [][NextRoundTrip]_vars

-----------------------------------------------------------------------------
(* sanitize_channel_handle, defined alike by analyze.py and by              *)
(* download_transcriptions.py                                               *)

\* the characters of the class [<>:"/\\|?*] of the regular expression
FORBIDDEN_CHARACTERS == {"<", ">", ":", "\"", "/", "\\", "|", "?", "*"}

\* the length sanitized[:50] cuts to
SANITIZED_LENGTH == 50

\* str.replace(' ', '_')
ReplaceSpaces(s) == [i \in 1..Len(s) |-> IF s[i] = " " THEN "_" ELSE s[i]]

\* re.sub(r'[<>:"/\\|?*]', '', s)
IsAllowed(c) == c \notin FORBIDDEN_CHARACTERS

RemoveForbidden(s) == SelectSeq(s, IsAllowed)

\* s[:n]
Prefix(s, n) == SubSeq(s, 1, min(n, Len(s)))

\* a sanitizer that cuts the handle before it removes characters from it
SanitizeTruncatingFirst(channel_handle) ==
    RemoveForbidden(ReplaceSpaces(Prefix(channel_handle, SANITIZED_LENGTH)))

\* analyze.py
sanitize_channel_handle(channel_handle) ==
    LET replaced == ReplaceSpaces(channel_handle)
        sanitized == RemoveForbidden(replaced)
    IN Prefix(sanitized, SANITIZED_LENGTH)

\* download_transcriptions.py
downloader_sanitize_channel_handle(channel_handle) ==
    LET replaced == ReplaceSpaces(channel_handle)
        sanitized == RemoveForbidden(replaced)
    IN Prefix(sanitized, SANITIZED_LENGTH)

\* the longest text enumerated in full at the start of a handle
MaxHandleStart == 1

HandleAlphabet == FORBIDDEN_CHARACTERS \cup {" ", "_", "@", "a"}

HandleStarts ==
    UNION {[1..n -> HandleAlphabet] : n \in 0..MaxHandleStart}

HandleEnds == {<<>>} \cup {<<c>> : c \in HandleAlphabet}

Filler(n) == [i \in 1..n |-> "x"]

\* lengths of filler that bring a handle just below, to and beyond the cut,
\* with the characters around it
FillerLengths == {0, SANITIZED_LENGTH - 1, SANITIZED_LENGTH}

Handles ==
    {a \o Filler(n) \o b : a \in HandleStarts, n \in FillerLengths, b \in HandleEnds}

InitSanitize ==
    /\ h_handle \in Handles
    /\ h_analyzer = None
    /\ h_downloader = None
    /\ h_state = "start"
    /\ CsvUnused
    /\ CacheUnused
    /\ DownloadUnused
    /\ BatchUnused
    /\ MatcherUnused
    /\ CodecUnused
    /\ ParserUnused

AnalyzerSanitizes ==
    /\ h_state \in {"start", "downloader"}
    /\ h_analyzer = None
    /\ h_analyzer' = Some(sanitize_channel_handle(h_handle))
    /\ h_state' = IF h_state = "start" THEN "analyzer" ELSE "both"
    /\ UNCHANGED <<h_handle, h_downloader>>
    /\ UNCHANGED <<config_vars, batch_vars, local_vars, hist_vars, matcher_vars,
                   codec_vars, parser_vars, csv_vars, cache_vars, download_vars>>

DownloaderSanitizes ==
    /\ h_state \in {"start", "analyzer"}
    /\ h_downloader = None
    /\ h_downloader' = Some(downloader_sanitize_channel_handle(h_handle))
    /\ h_state' = IF h_state = "start" THEN "downloader" ELSE "both"
    /\ UNCHANGED <<h_handle, h_analyzer>>
    /\ UNCHANGED <<config_vars, batch_vars, local_vars, hist_vars, matcher_vars,
                   codec_vars, parser_vars, csv_vars, cache_vars, download_vars>>

NextSanitize == AnalyzerSanitizes \/ DownloaderSanitizes

SpecSanitize == InitSanitize /\ [][NextSanitize]_vars

-----------------------------------------------------------------------------
(* get_videos_for_playlists.py: append_unique_videos_to_csv                  *)

\* the most calls of append_unique_videos_to_csv in one run of SpecCsv
MaxCsvCalls == 3
\* the most videos in the list handed to one call
MaxListLen == 2
\* the number of different videos the playlists hold
MaxPlaylistVideos == 3

\* the video_data record get_videos_from_playlist builds for video k
VideoData(k) ==
    [videoId |-> VideoId(k),
     title |-> <<"t", Digit(k)>>,
     description |-> <<"d">>,
     publishedAt |-> <<"2", "0", "2", "4">>,
     channelHandle |-> <<"@", "c", "h">>]

\* the lists of videos a call may be given; a playlist may hold a video twice
VideoLists ==
    UNION {[1..n -> {VideoData(k) : k \in 1..MaxPlaylistVideos}] : n \in 0..MaxListLen}

\* load_existing_video_ids: the videoId of every row of the file, the empty
\* set when the file does not exist
load_existing_video_ids(file) ==
    IF file = None THEN {}
    ELSE {ValueOf(file).rows[k].videoId : k \in 1..Len(ValueOf(file).rows)}

\* new_videos = [v for v in videos if v['videoId'] not in existing_ids]
NotExisting(videos, existing_ids) ==
    LET keep == {k \in 1..Len(videos) : videos[k].videoId \notin existing_ids}
        KeptUpTo[k \in 0..Len(videos)] ==
            IF k = 0 THEN 0 ELSE KeptUpTo[k - 1] + (IF k \in keep THEN 1 ELSE 0)
    IN [j \in 1..Cardinality(keep) |->
           videos[CHOOSE k \in keep : KeptUpTo[k] = j]]

\* the file after the rows are appended to it, the header line first when the
\* file is created
Appended(file, rows) ==
    IF file = None THEN Some([header |-> TRUE, rows |-> rows])
    ELSE Some([header |-> ValueOf(file).header, rows |-> ValueOf(file).rows \o rows])

\* the files an earlier run of the program may have left
EarlierFiles ==
    {None, Some([header |-> TRUE, rows |-> <<>>]),
     Some([header |-> TRUE, rows |-> <<VideoData(1)>>])}

InitCsv ==
    /\ csv_file \in EarlierFiles
    /\ csv_calls = 0
    /\ HandleUnused
    /\ CacheUnused
    /\ DownloadUnused
    /\ BatchUnused
    /\ MatcherUnused
    /\ CodecUnused
    /\ ParserUnused

CsvFrame ==
    UNCHANGED <<config_vars, batch_vars, local_vars, hist_vars, matcher_vars,
                codec_vars, parser_vars, handle_vars, cache_vars, download_vars>>

\* a call that finds no new video and returns before the file is opened
AppendNothingNew ==
    /\ csv_calls < MaxCsvCalls
    /\ \E videos \in VideoLists :
           NotExisting(videos, load_existing_video_ids(csv_file)) = <<>>
    /\ csv_calls' = csv_calls + 1
    /\ UNCHANGED csv_file
    /\ CsvFrame

\* a call that appends its new videos to the file
AppendNewVideos ==
    /\ csv_calls < MaxCsvCalls
    /\ \E videos \in VideoLists :
           LET existing_ids == load_existing_video_ids(csv_file)
               new_videos == NotExisting(videos, existing_ids)
           IN /\ new_videos # <<>>
              /\ csv_file' = Appended(csv_file, new_videos)
    /\ csv_calls' = csv_calls + 1
    /\ CsvFrame

\* a call whose write raises: the file could not be opened, or writerows
\* stopped after some of the rows
AppendFails ==
    /\ csv_calls < MaxCsvCalls
    /\ \E videos \in VideoLists :
           LET existing_ids == load_existing_video_ids(csv_file)
               new_videos == NotExisting(videos, existing_ids)
           IN /\ new_videos # <<>>
              /\ \E opened \in BOOLEAN, written \in 0..(Len(new_videos) - 1) :
                     csv_file' = IF opened
                                 THEN Appended(csv_file, SubSeq(new_videos, 1, written))
                                 ELSE csv_file
    /\ csv_calls' = csv_calls + 1
    /\ CsvFrame

NextCsv == AppendNothingNew \/ AppendNewVideos \/ AppendFails

SpecCsv == InitCsv /\ [][NextCsv]_vars

-----------------------------------------------------------------------------
(* get_videos_for_playlists.py: get_channel_handle and its cache             *)

\* the most get_channel_handle calls in one run of SpecCache
MaxLookups == 4
\* the number of different channels of the playlists
MaxChannels == 2

ChannelId(k) == <<"U", "C", Digit(k)>>
ChannelIds == {ChannelId(k) : k \in 1..MaxChannels}

\* what the snippet of a channel may hold under customUrl: a custom URL with
\* or without the leading '@', or the empty text
CustomUrls == {<<"@", "n">>, <<"n">>, <<"@", "m">>, <<>>}

\* channel_handle_cache[channel_id] = handle
DictSet(d, k, v) ==
    IF DictHas(d, k)
    THEN [i \in 1..Len(d) |-> IF d[i][1] = k THEN <<k, v>> ELSE d[i]]
    ELSE Append(d, <<k, v>>)

\* '@' + channel_id
FallbackHandle(channel_id) == <<"@">> \o channel_id

\* the handle made of the customUrl of the snippet, None when it has none
HandleOfSnippet(channel_id, custom_url) ==
    IF custom_url # None /\ ValueOf(custom_url) # <<>>
    THEN IF StartsWith(ValueOf(custom_url), <<"@">>)
         THEN ValueOf(custom_url)
         ELSE <<"@">> \o ValueOf(custom_url)
    ELSE FallbackHandle(channel_id)

InitCache ==
    /\ channel_handle_cache = <<>>
    /\ api_requests = <<>>
    /\ handles_returned = <<>>
    /\ lookups_raised = <<>>
    /\ HandleUnused
    /\ CsvUnused
    /\ DownloadUnused
    /\ BatchUnused
    /\ MatcherUnused
    /\ CodecUnused
    /\ ParserUnused

CacheFrame ==
    UNCHANGED <<config_vars, batch_vars, local_vars, hist_vars, matcher_vars,
                codec_vars, parser_vars, handle_vars, csv_vars, download_vars>>

LookupsLeft == Len(handles_returned) + Len(lookups_raised) < MaxLookups

\* a call that asks the API, stores the handle in the cache and returns it
Looked(channel_id, response, handle) ==
    /\ api_requests' = Append(api_requests, <<channel_id, response>>)
    /\ channel_handle_cache' = DictSet(channel_handle_cache, channel_id, handle)
    /\ handles_returned' = Append(handles_returned, <<channel_id, handle>>)
    /\ UNCHANGED lookups_raised
    /\ CacheFrame

\* if channel_id in channel_handle_cache: return channel_handle_cache[channel_id]
LookupCached ==
    /\ LookupsLeft
    /\ \E channel_id \in ChannelIds :
           /\ DictHas(channel_handle_cache, channel_id)
           /\ handles_returned' =
                  Append(handles_returned,
                         <<channel_id, DictGet(channel_handle_cache, channel_id, None)>>)
    /\ UNCHANGED <<channel_handle_cache, api_requests, lookups_raised>>
    /\ CacheFrame

\* an HTTP error that gives the fallback handle without storing it
LookupHttpErrorUncached ==
    /\ LookupsLeft
    /\ \E channel_id \in ChannelIds :
           /\ ~DictHas(channel_handle_cache, channel_id)
           /\ api_requests' = Append(api_requests, <<channel_id, "HttpError">>)
           /\ handles_returned' =
                  Append(handles_returned, <<channel_id, FallbackHandle(channel_id)>>)
    /\ UNCHANGED <<channel_handle_cache, lookups_raised>>
    /\ CacheFrame

\* except HttpError: the fallback handle is stored and returned
LookupHttpError ==
    /\ LookupsLeft
    /\ \E channel_id \in ChannelIds :
           /\ ~DictHas(channel_handle_cache, channel_id)
           /\ Looked(channel_id, "HttpError", FallbackHandle(channel_id))

\* if not items: the fallback handle is stored and returned
LookupNoChannel ==
    /\ LookupsLeft
    /\ \E channel_id \in ChannelIds :
           /\ ~DictHas(channel_handle_cache, channel_id)
           /\ Looked(channel_id, "no items", FallbackHandle(channel_id))

\* a channel is found: its handle is made of customUrl when the snippet has
\* one that is not empty, of the channel id otherwise
LookupChannelFound ==
    /\ LookupsLeft
    /\ \E channel_id \in ChannelIds :
           /\ ~DictHas(channel_handle_cache, channel_id)
           /\ \E custom_url \in {None} \cup {Some(u) : u \in CustomUrls} :
                  Looked(channel_id, "items", HandleOfSnippet(channel_id, custom_url))

\* request.execute() raises an exception that is no HttpError (the transport
\* failed), or the item has no snippet: the exception leaves the function,
\* nothing is stored; main logs it and goes on to the next playlist
LookupRaises ==
    /\ LookupsLeft
    /\ \E channel_id \in ChannelIds :
           /\ ~DictHas(channel_handle_cache, channel_id)
           /\ api_requests' = Append(api_requests, <<channel_id, "raised">>)
           /\ lookups_raised' = Append(lookups_raised, channel_id)
    /\ UNCHANGED <<channel_handle_cache, handles_returned>>
    /\ CacheFrame

NextCache ==
    \/ LookupCached
    \/ LookupHttpError
    \/ LookupNoChannel
    \/ LookupChannelFound
    \/ LookupRaises

SpecCache == InitCache /\ [][NextCache]_vars

-----------------------------------------------------------------------------
(* download_transcriptions.py: main, download_transcript, save_transcript    *)

\* the most rows of the input CSV, and the most runs of the downloader over it
MaxRows == 2
MaxRuns == 2

LANGUAGE_CODES == <<"pl">>

\* what YouTubeTranscriptApi.get_transcript may do for one language: raise,
\* return a transcript without entries, return a transcript with entries
ApiOutcomes == {"raises", "empty", "entries"}

\* download_transcript: the transcript of the first language that does not
\* raise, None when every language raises
RECURSIVE download_transcript(_, _)
download_transcript(outcome_of, language_codes) ==
    IF language_codes = <<>> THEN None
    ELSE IF outcome_of[Head(language_codes)] # "raises"
         THEN Some(outcome_of[Head(language_codes)])
         ELSE download_transcript(outcome_of, Tail(language_codes))

\* `if transcript:` is false for None and for a transcript without entries
IsTruthy(transcript) == transcript # None /\ ValueOf(transcript) = "entries"

\* what the API may do for the configured languages
ApiBehaviours == [{LANGUAGE_CODES[i] : i \in 1..Len(LANGUAGE_CODES)} -> ApiOutcomes]

\* the rows of the input CSV: a videoId or none, a channelHandle or none; the
\* two handles are sanitized to the same directory name
HandleWithSpace == <<"a", " ", "b">>
HandleWithUnderscore == <<"a", "_", "b">>

InputRows ==
    [videoId : {<<>>, VideoId(1), VideoId(2)},
     channelHandle : {<<>>, HandleWithSpace, HandleWithUnderscore}]

\* os.path.join(OUTPUT_DIR, sanitized_handle, f"{video_id}.txt")
transcript_path(row) ==
    <<downloader_sanitize_channel_handle(row.channelHandle), row.videoId>>

\* os.path.exists(transcript_path)
Exists(path) == \E f \in d_files : f.path = path

InitDownload ==
    /\ d_rows \in UNION {[1..n -> InputRows] : n \in 0..MaxRows}
    /\ d_files = {}
    /\ d_pc = "idle"
    /\ d_row = 0
    /\ d_run = 0
    /\ d_requests = 0
    /\ d_event = "none"
    /\ HandleUnused
    /\ CsvUnused
    /\ CacheUnused
    /\ BatchUnused
    /\ MatcherUnused
    /\ CodecUnused
    /\ ParserUnused

DownloadFrame ==
    UNCHANGED <<config_vars, batch_vars, local_vars, hist_vars, matcher_vars,
                codec_vars, parser_vars, handle_vars, csv_vars, cache_vars>>

\* main starts to read the input CSV
StartRun ==
    /\ d_pc = "idle"
    /\ d_run < MaxRuns
    /\ d_run' = d_run + 1
    /\ d_row' = 0
    /\ d_pc' = "rows"
    /\ d_event' = "started"
    /\ UNCHANGED <<d_rows, d_files, d_requests>>
    /\ DownloadFrame

\* main returns before the loop: the output directory cannot be created or
\* the input CSV does not exist
RunWithoutInput ==
    /\ d_pc = "idle"
    /\ d_run < MaxRuns
    /\ d_run' = d_run + 1
    /\ d_event' = "no input"
    /\ UNCHANGED <<d_rows, d_files, d_pc, d_row, d_requests>>
    /\ DownloadFrame

AtRow == d_pc = "rows" /\ d_row < Len(d_rows)

CurrentRow == d_rows[d_row + 1]

\* continue: the loop goes on with the next row
Continue(event) ==
    /\ d_row' = d_row + 1
    /\ d_event' = event
    /\ UNCHANGED <<d_rows, d_pc, d_run>>
    /\ DownloadFrame

\* if not video_id: continue
SkipNoVideoId ==
    /\ AtRow
    /\ CurrentRow.videoId = <<>>
    /\ UNCHANGED <<d_files, d_requests>>
    /\ Continue("no videoId")

\* if not channel_handle: continue
SkipNoChannelHandle ==
    /\ AtRow
    /\ CurrentRow.videoId # <<>>
    /\ CurrentRow.channelHandle = <<>>
    /\ UNCHANGED <<d_files, d_requests>>
    /\ Continue("no channelHandle")

HasBoth == CurrentRow.videoId # <<>> /\ CurrentRow.channelHandle # <<>>

\* a downloader that downloads and writes again a transcript that exists
ExistingDownloadedAgain ==
    /\ AtRow
    /\ HasBoth
    /\ Exists(transcript_path(CurrentRow))
    /\ d_requests' = d_requests + 1
    /\ d_files' = {f \in d_files : f.path # transcript_path(CurrentRow)}
                      \cup {[path |-> transcript_path(CurrentRow), run |-> d_run,
                             row |-> d_row + 1, complete |-> TRUE]}
    /\ Continue("saved")

\* if os.path.exists(transcript_path): continue
SkipExisting ==
    /\ AtRow
    /\ HasBoth
    /\ Exists(transcript_path(CurrentRow))
    /\ UNCHANGED <<d_files, d_requests>>
    /\ Continue("exists")

\* download_transcript gives nothing to save: every language raised, or the
\* transcript has no entries
DownloadNothing ==
    /\ AtRow
    /\ HasBoth
    /\ ~Exists(transcript_path(CurrentRow))
    /\ \E outcome_of \in ApiBehaviours :
           LET transcript == download_transcript(outcome_of, LANGUAGE_CODES)
           IN /\ ~IsTruthy(transcript)
              /\ d_event' = IF transcript = None THEN "no transcript" ELSE "empty transcript"
    /\ d_requests' = d_requests + 1
    /\ d_row' = d_row + 1
    /\ UNCHANGED <<d_rows, d_files, d_pc, d_run>>
    /\ DownloadFrame

\* the transcript is downloaded and save_transcript writes its file
DownloadAndSave ==
    /\ AtRow
    /\ HasBoth
    /\ ~Exists(transcript_path(CurrentRow))
    /\ \E outcome_of \in ApiBehaviours :
           IsTruthy(download_transcript(outcome_of, LANGUAGE_CODES))
    /\ d_requests' = d_requests + 1
    /\ d_files' = d_files \cup {[path |-> transcript_path(CurrentRow), run |-> d_run,
                                 row |-> d_row + 1, complete |-> TRUE]}
    /\ Continue("saved")

\* the transcript is downloaded and save_transcript returns False: open
\* raised and there is no file, or the write raised after the file was made
DownloadSaveFails ==
    /\ AtRow
    /\ HasBoth
    /\ ~Exists(transcript_path(CurrentRow))
    /\ \E outcome_of \in ApiBehaviours :
           IsTruthy(download_transcript(outcome_of, LANGUAGE_CODES))
    /\ d_requests' = d_requests + 1
    /\ \E opened \in BOOLEAN :
           d_files' = IF opened
                      THEN d_files \cup {[path |-> transcript_path(CurrentRow),
                                          run |-> d_run, row |-> d_row + 1,
                                          complete |-> FALSE]}
                      ELSE d_files
    /\ Continue("save failed")

\* the transcript is downloaded and os.makedirs raises in save_transcript,
\* outside its try: the exception ends main
DownloadSaveRaises ==
    /\ AtRow
    /\ HasBoth
    /\ ~Exists(transcript_path(CurrentRow))
    /\ \E outcome_of \in ApiBehaviours :
           IsTruthy(download_transcript(outcome_of, LANGUAGE_CODES))
    /\ d_requests' = d_requests + 1
    /\ d_pc' = "idle"
    /\ d_event' = "raised"
    /\ UNCHANGED <<d_rows, d_files, d_row, d_run>>
    /\ DownloadFrame

\* the rows are exhausted: "Transcript download process finished"
FinishRun ==
    /\ d_pc = "rows"
    /\ d_row = Len(d_rows)
    /\ d_pc' = "idle"
    /\ d_event' = "finished"
    /\ UNCHANGED <<d_rows, d_files, d_row, d_run, d_requests>>
    /\ DownloadFrame

NextDownload ==
    \/ StartRun
    \/ RunWithoutInput
    \/ SkipNoVideoId
    \/ SkipNoChannelHandle
    \/ SkipExisting
    \/ DownloadNothing
    \/ DownloadAndSave
    \/ DownloadSaveFails
    \/ DownloadSaveRaises
    \/ FinishRun

SpecDownload == InitDownload /\ [][NextDownload]_vars

-----------------------------------------------------------------------------
(* Properties of the window builder, under SpecMerge                       *)

\* C1: the merged windows are sorted by start index and pairwise neither
\* overlapping nor adjacent: each window starts after the line that follows
\* the end of the window before it.
MergedSortedDisjoint ==
    \A k \in 1..(Len(merged) - 1) : merged[k + 1][1] > merged[k][2] + 1

\* the merge of a transcript has ended with two windows or more, under the
\* context radius of the program
SeveralWindowsMerged ==
    /\ pc = "score"
    /\ radius = CONTEXT_LINES
    /\ Len(merged) >= 2

\* one pass of the merge loop, as the claim C2 describes it
MergePassAsDescribed ==
    (pc = "merge" /\ hpos <= Len(hits)) =>
        LET i == hits[hpos][3]
            n == Len(parsed_lines)
            cand_start == IF i - radius > 0 THEN i - radius ELSE 0
            cand_end == IF i + radius < n - 1 THEN i + radius ELSE n - 1
        IN /\ hits[hpos] = <<cand_start, cand_end, i>>
           /\ current_start # <<>> =>
                  IF cand_start <= current_end[1] + 1
                  THEN /\ current_end' =
                              <<IF cand_end > current_end[1] THEN cand_end
                                ELSE current_end[1]>>
                       /\ indexes_in_range' = Append(indexes_in_range, i)
                       /\ current_start' = current_start
                       /\ merged' = merged
                  ELSE /\ merged' = Append(merged, <<current_start[1], current_end[1],
                                                     indexes_in_range>>)
                       /\ current_start' = <<cand_start>>
                       /\ current_end' = <<cand_end>>
                       /\ indexes_in_range' = <<i>>

\* the trigger lines of the transcript, in the order of hits
TriggerLines == [j \in 1..Len(hits) |-> hits[j][3]]

\* hits at lines 2 and 9 with radius 5 in a transcript of 15 lines or more
\* give the single window [0, 14]
HitsTwoAndNine ==
    (pc = "score" /\ radius = 5 /\ Len(parsed_lines) >= 15 /\ TriggerLines = <<2, 9>>)
        => merged = <<<<0, 14, <<2, 9>>>>>>

\* C2: in the merge loop a hit at line i has the candidate window
\* [max(0, i - R), min(len - 1, i + R)]; with a window open the candidate is
\* merged into it iff its start is at most current_end + 1, and then
\* current_end becomes the larger end and i joins the triggers; otherwise the
\* open window is emitted and a new one opened from the candidate.  Hits at
\* lines 2 and 9 with R = 5 in 15 lines or more give the one window [0, 14].
MergeLoopAsDescribed == [][MergePassAsDescribed]_vars /\ []HitsTwoAndNine

\* the merge of hits at lines 2 and 9 with radius 5 has ended
HitsTwoAndNineMerged ==
    /\ pc = "score"
    /\ radius = 5
    /\ Len(parsed_lines) >= 15
    /\ TriggerLines = <<2, 9>>
    /\ Len(merged) = 1

WithinTranscript(s, e) == 0 <= s /\ s <= e /\ e < Len(parsed_lines)

\* C3: every candidate window and every merged window, the open one included,
\* satisfies 0 <= start_index <= end_index < len(transcript), at every step
\* of the merge loop.
WindowsWithinTranscript ==
    /\ \A j \in 1..Len(hits) : WithinTranscript(hits[j][1], hits[j][2])
    /\ \A k \in 1..Len(merged) : WithinTranscript(merged[k][1], merged[k][2])
    /\ current_start # <<>> => WithinTranscript(current_start[1], current_end[1])

\* the merge loop is under way with a window open, and a candidate was
\* clipped at both ends of the transcript
ClippedCandidateMerging ==
    /\ pc = "merge"
    /\ current_start # <<>>
    /\ \E j \in 1..Len(hits) :
           /\ hits[j][3] - radius < 0
           /\ hits[j][3] + radius > Len(parsed_lines) - 1

-----------------------------------------------------------------------------
(* Properties of the batch, under Spec                                     *)

PhasePath == <<"START", "PARSING_LINES", "SCANNING_HITS", "MERGING", "SCORING_EACH_WINDOW">>

IsPrefix(p, q) == Len(p) <= Len(q) /\ SubSeq(q, 1, Len(p)) = p

\* the excerpts emitted so far for video v
ExcerptsFor(v) == SelectSeq(results, LAMBDA r : r.videoId = catalogue[v].videoId)

\* C4: each video goes START, PARSING_LINES, SCANNING_HITS and then either
\* ends DONE_EMPTY without hits, or goes on through MERGING and
\* SCORING_EACH_WINDOW to DONE_WITH_RESULTS, or halts DONE_MISSING from START
\* when its file is absent or unreadable; it reaches exactly one terminal
\* state, enters no phase twice, and has no excerpt before its merging ended.
PhasesAsDescribed ==
    \A v \in 1..Len(catalogue) :
        /\ IsPrefix(phases[v], PhasePath)
        /\ Len(outcomes[v]) <= 1
        /\ pc = "done" => Len(outcomes[v]) = 1
        /\ outcomes[v] # <<>> =>
               /\ ~(vidx = v /\ pc # "loop" /\ pc # "done")
               /\ \/ /\ outcomes[v] = <<"DONE_MISSING">>
                     /\ phases[v] = <<"START">>
                     /\ catalogue[v].file # "ok"
                     /\ ExcerptsFor(v) = <<>>
                  \/ /\ outcomes[v] = <<"DONE_EMPTY">>
                     /\ phases[v] = SubSeq(PhasePath, 1, 3)
                     /\ ExcerptsFor(v) = <<>>
                  \/ /\ outcomes[v] = <<"DONE_WITH_RESULTS">>
                     /\ phases[v] = PhasePath
                     /\ ExcerptsFor(v) # <<>>
        /\ ExcerptsFor(v) # <<>> =>
               /\ phases[v] = PhasePath
               /\ vidx = v /\ outcomes[v] = <<>> => pc = "score" /\ hpos > Len(hits)

\* a batch has ended in which a video went missing, another had no hits and
\* the last one gave results
ThreeOutcomesReached ==
    /\ pc = "done"
    /\ Len(catalogue) = 3
    /\ outcomes = <<<<"DONE_MISSING">>, <<"DONE_EMPTY">>, <<"DONE_WITH_RESULTS">>>>

FailingVideos == {v \in 1..Len(catalogue) : catalogue[v].file # "ok"}

\* a line of the transcript file of video v holds a keyword
HasTrigger(v) ==
    \E k \in 1..Len(catalogue[v].content) :
        \E j \in 1..Len(keywords) :
            count_keyword_occurrences_in_line(parse_line(catalogue[v].content[k])[2],
                                              keywords[j]) > 0

\* the video an entry of the missing list names
EntryVideoId(entry) == IF entry.kind = "dict" THEN entry.value.videoId ELSE entry.value

BatchOutcome ==
    pc = "done" =>
        /\ \A v \in 1..Len(catalogue) : outcomes[v] # <<>>
        /\ Len(missing_transcriptions) = Cardinality(FailingVideos)
        /\ \A v \in FailingVideos :
               \E m \in 1..Len(missing_transcriptions) :
                   EntryVideoId(missing_transcriptions[m]) = catalogue[v].videoId
        /\ returned = <<results>>
        /\ \A v \in 1..Len(catalogue) :
               IF v \notin FailingVideos /\ HasTrigger(v)
               THEN ExcerptsFor(v) # <<>>
               ELSE ExcerptsFor(v) = <<>>

\* the batch has returned, or stands at a position of the code from which it
\* goes on
ReturnedOrGoingOn ==
    \/ pc = "done" /\ returned # <<>>
    \/ pc = "loop" /\ vidx <= Len(catalogue)
    \/ pc = "exists" /\ catalogue[vidx].file \in {"absent", "unreadable", "ok"}
    \/ pc \in {"parse", "scan", "hits", "score"}
    \/ pc = "merge" /\ hpos <= Len(hits) + 1

LongestTranscript ==
    CHOOSE n \in {Len(catalogue[v].content) : v \in 1..Len(catalogue)} :
        \A v \in 1..Len(catalogue) : Len(catalogue[v].content) <= n

\* a bound on the steps the batch still takes
StepsLeft ==
    (Len(catalogue) - vidx) * (2 * LongestTranscript + 7)
        + CASE pc = "loop" -> 1
            [] pc = "exists" -> 7 + 2 * Len(catalogue[vidx].content)
            [] pc = "parse" -> 6 + 2 * Len(lines)
            [] pc = "scan" -> 5 + 2 * Len(parsed_lines)
            [] pc = "hits" -> 4 + 2 * Len(hits)
            [] pc = "merge" -> 3 + Len(hits) + (Len(hits) + 1 - hpos)
            [] pc = "score" -> 2 + (Len(merged) + 1 - wpos)
            [] OTHER -> 0

\* C5: a missing or unreadable transcript never aborts the batch: every video
\* is processed, those after a failing one included, each failure is in the
\* missing list, the batch terminates (it never stops before it returns, and
\* every step brings the return nearer), and the excerpts of the videos that
\* did not fail are returned.
BatchSurvivesFailures ==
    /\ []BatchOutcome
    /\ []ReturnedOrGoingOn
    /\ [](StepsLeft >= 0)
    /\ [][StepsLeft' < StepsLeft]_vars

\* a batch has ended whose first video failed and whose last video gave
\* excerpts
ExcerptsAfterFailure ==
    /\ pc = "done"
    /\ Len(catalogue) >= 2
    /\ catalogue[1].file = "unreadable"
    /\ ExcerptsFor(Len(catalogue)) # <<>>
    /\ returned = <<results>>

\* C6: when the batch ends every catalogued video is counted in exactly one
\* of missing (file absent or unreadable), no-keywords (readable, no hit: no
\* excerpt, not in the missing list) and analyzed (a hit or more), so the
\* three counts add up to the number of catalogued videos.
OutcomeCountsPartition ==
    /\ pc = "loop" =>
           processed_videos + transcriptions_with_no_keywords
               + Len(missing_transcriptions) = vidx
    /\ pc = "done" =>
           /\ processed_videos + transcriptions_with_no_keywords
                  + Len(missing_transcriptions) = Len(catalogue)
           /\ Len(missing_transcriptions) = Cardinality(FailingVideos)
           /\ transcriptions_with_no_keywords =
                  Cardinality({v \in 1..Len(catalogue) :
                                   v \notin FailingVideos /\ ~HasTrigger(v)})
           /\ processed_videos =
                  Cardinality({v \in 1..Len(catalogue) :
                                   v \notin FailingVideos /\ HasTrigger(v)})
           /\ \A v \in 1..Len(catalogue) :
                  (v \notin FailingVideos /\ ~HasTrigger(v)) =>
                      /\ ExcerptsFor(v) = <<>>
                      /\ \A m \in 1..Len(missing_transcriptions) :
                             EntryVideoId(missing_transcriptions[m]) # catalogue[v].videoId

\* a batch has ended with a video in each of the three counts
ThreeCountsNonZero ==
    /\ pc = "done"
    /\ processed_videos >= 1
    /\ transcriptions_with_no_keywords >= 1
    /\ Len(missing_transcriptions) >= 1

ExampleLines ==
    <<<<"[", "0", ":", "0", "0", "]", " ", "h", "e", "l", "l", "o", "\n">>,
      <<"[", "0", ":", "0", "5", "]", " ", "k", "r", "e", "d", "y", "t", " ", "n", "o", "w", "\n">>,
      <<"[", "0", ":", "1", "0", "]", " ", "m", "o", "r", "e", " ", "t", "e", "x", "t">>>>

\* the catalogue is the one video V1 with the example transcript, the keyword
\* list is ["kredyt"] and its weight is 1.0
ExampleRun ==
    /\ Len(catalogue) = 1
    /\ catalogue[1].videoId = <<"V", "1">>
    /\ catalogue[1].file = "ok"
    /\ catalogue[1].content = ExampleLines
    /\ keywords = <<<<"k", "r", "e", "d", "y", "t">>>>
    /\ weights = <<<<<<"k", "r", "e", "d", "y", "t">>, 2>>>>

EndsWith(s, suffix) ==
    Len(suffix) <= Len(s) /\ SubSeq(s, Len(s) - Len(suffix) + 1, Len(s)) = suffix

\* C7: the catalogue of the one video V1 with the lines "[0:00] hello",
\* "[0:05] kredyt now", "[0:10] more text", keywords ["kredyt"] of weight 1.0,
\* yields exactly one excerpt, over lines 0..2, with score 1, keywords_found
\* "kredyt", timestamp_start "0:00" and a link ending in "&t=0s".
EndToEndExample ==
    ExampleRun =>
        /\ pc = "score" => merged = <<<<0, 2, <<1>>>>>>
        /\ pc = "done" =>
               /\ returned = <<results>>
               /\ Len(results) = 1
               /\ results[1].videoId = <<"V", "1">>
               /\ results[1].score = 1
               /\ results[1].keywords_found = <<"k", "r", "e", "d", "y", "t">>
               /\ results[1].timestamp_start = <<"0", ":", "0", "0">>
               /\ results[1].transcription_lines =
                      <<"h", "e", "l", "l", "o", "\n",
                        "k", "r", "e", "d", "y", "t", " ", "n", "o", "w", "\n",
                        "m", "o", "r", "e", " ", "t", "e", "x", "t">>
               /\ EndsWith(results[1].youtube_link, <<"&", "t", "=", "0", "s">>)

\* the example run has ended
ExampleRunDone == ExampleRun /\ pc = "done"

\* the texts of the lines of the window scored last
ScoredWindowTexts ==
    LET window == merged[wpos - 1]
    IN [k \in 1..(window[2] - window[1] + 1) |-> parsed_lines[window[1] + k][2]]

\* the matcher's counts of kw in each of the texts, added up
RECURSIVE PerLineTotal(_, _)
PerLineTotal(texts, kw) ==
    IF texts = <<>> THEN 0
    ELSE count_keyword_occurrences_in_line(Head(texts), kw) + PerLineTotal(Tail(texts), kw)

\* the weight of kw in halves: that of the weights mapping, 1.0 without one
WeightOf(kw) ==
    IF \E p \in 1..Len(weights) : weights[p][1] = kw
    THEN weights[CHOOSE p \in 1..Len(weights) : weights[p][1] = kw][2]
    ELSE 2

\* the sum of count x weight over the first n entries of the keyword list
RECURSIVE WeightedSum(_)
WeightedSum(n) ==
    IF n = 0 THEN 0
    ELSE WeightedSum(n - 1) + PerLineTotal(ScoredWindowTexts, keywords[n]) * WeightOf(keywords[n])

\* C8: calculate_score returns the sum over the keyword list of (occurrence
\* count of the keyword in the window) x (weight of the keyword), and its
\* found list holds exactly the keywords whose count is positive; with the
\* weights kredyt 1.0, 0% 2.0 and a window holding "kredyt" once and "0%"
\* twice the score is 5.
ScoreIsWeightedSum ==
    last_score # <<>> =>
        /\ last_score[1][1] = WeightedSum(Len(keywords))
        /\ {last_score[1][2][i] : i \in 1..Len(last_score[1][2])}
               = {keywords[j] : j \in {j \in 1..Len(keywords) :
                                           PerLineTotal(ScoredWindowTexts, keywords[j]) > 0}}
        /\ \A i, j \in 1..Len(last_score[1][2]) :
               last_score[1][2][i] = last_score[1][2][j] => i = j
        /\ (/\ keywords = <<<<"k", "r", "e", "d", "y", "t">>, <<"0", "%">>>>
            /\ weights = <<<<<<"k", "r", "e", "d", "y", "t">>, 2>>, <<<<"0", "%">>, 4>>>>
            /\ PerLineTotal(ScoredWindowTexts, <<"k", "r", "e", "d", "y", "t">>) = 1
            /\ PerLineTotal(ScoredWindowTexts, <<"0", "%">>) = 2)
               => /\ last_score[1][1] = 10
                  /\ results[Len(results)].score = 5

\* a window holding "kredyt" once and "0%" twice was scored under the weights
\* kredyt 1.0, 0% 2.0
ExampleWindowScored ==
    /\ last_score # <<>>
    /\ keywords = <<<<"k", "r", "e", "d", "y", "t">>, <<"0", "%">>>>
    /\ weights = <<<<<<"k", "r", "e", "d", "y", "t">>, 2>>, <<<<"0", "%">>, 4>>>>
    /\ PerLineTotal(ScoredWindowTexts, <<"k", "r", "e", "d", "y", "t">>) = 1
    /\ PerLineTotal(ScoredWindowTexts, <<"0", "%">>) = 2

\* the times kw is listed in the keyword list
TimesListed(kw) == Len(SelectSeq(keywords, LAMBDA k : k = kw))

\* C9, as stated: the count the scorer uses for a keyword is the matcher's
\* count applied once to the newline-joined text of the window's lines.
ScorerCountsJoinedText ==
    (kw_counts # <<>> /\ \A kw \in {keywords[j] : j \in 1..Len(keywords)} : TimesListed(kw) = 1) =>
        \A i \in 1..Len(kw_counts[1]) :
            kw_counts[1][i][2] =
                count_keyword_occurrences_in_line(Join(<<"\n">>, ScoredWindowTexts),
                                                  kw_counts[1][i][1])

\* C9, amended: the count the scorer uses for a keyword is the sum, over the
\* lines of the window, of the matcher's count applied to the text of each
\* line on its own, taken once for each time the keyword is listed.
ScorerCountsLineByLine ==
    kw_counts # <<>> =>
        /\ {kw_counts[1][i][1] : i \in 1..Len(kw_counts[1])}
               = {keywords[j] : j \in 1..Len(keywords)}
        /\ \A i \in 1..Len(kw_counts[1]) :
               kw_counts[1][i][2] =
                   TimesListed(kw_counts[1][i][1])
                       * PerLineTotal(ScoredWindowTexts, kw_counts[1][i][1])

\* a window of several lines was scored in which a line after the first
\* begins with a keyword, so that the two ways of counting differ
LineStartKeywordScored ==
    /\ kw_counts # <<>>
    /\ Len(ScoredWindowTexts) >= 2
    /\ \E j \in 1..Len(keywords) :
           PerLineTotal(ScoredWindowTexts, keywords[j])
               # count_keyword_occurrences_in_line(Join(<<"\n">>, ScoredWindowTexts),
                                                   keywords[j])

-----------------------------------------------------------------------------
(* Properties of the keyword matcher, under SpecMatcher                    *)

\* kw, case-folded, occurs in text, case-folded, at position p, which is the
\* start of the text or follows a space
BoundedAt(text, kw, p) ==
    /\ p + Len(kw) - 1 <= Len(text)
    /\ SubSeq(Lower(text), p, p + Len(kw) - 1) = Lower(kw)
    /\ (p = 1 \/ text[p - 1] = " ")

\* the occurrences of kw from position p on that are at the start of the text
\* or follow a space, none overlapping the one before it
RECURSIVE BoundedOccurrencesFrom(_, _, _)
BoundedOccurrencesFrom(text, kw, p) ==
    IF p > Len(text) + 1 \/ p + Len(kw) - 1 > Len(text) THEN 0
    ELSE IF BoundedAt(text, kw, p)
         THEN 1 + BoundedOccurrencesFrom(text, kw, p + (IF kw = <<>> THEN 1 ELSE Len(kw)))
         ELSE BoundedOccurrencesFrom(text, kw, p + 1)

\* C10: count(text, keyword) is the number of non-overlapping occurrences of
\* the keyword that are at the very start of the text or immediately preceded
\* by a space, whatever follows them; occurrences preceded by another
\* character do not count, and the result is 0 when there is none.
CountIsBoundedOccurrences ==
    m_state = "counted" => m_count = BoundedOccurrencesFrom(m_text, m_kw, 1)

\* C11, as stated: the keyword "0%" at the end of the longer word "50%" counts
\* although a character that is no space precedes it.
KeywordEndingLongerWordCounts ==
    (m_state = "counted" /\ m_text = TextFiftyPercent /\ m_kw = KEYWORD_ZERO_PERCENT)
        => m_count >= 1

\* C11, amended: an occurrence preceded by a character that is no space does
\* not count: the count is positive exactly when the keyword occurs at the
\* start of the text or right after a space, and the count of "0%" in "50%"
\* is 0.
OnlyBoundedOccurrencesCount ==
    m_state = "counted" =>
        /\ (m_count > 0) <=> (\E p \in 1..(Len(m_text) + 1) : BoundedAt(m_text, m_kw, p))
        /\ (m_text = TextFiftyPercent /\ m_kw = KEYWORD_ZERO_PERCENT) => m_count = 0

\* "0%" was counted in "50%"
FiftyPercentCounted ==
    m_state = "counted" /\ m_text = TextFiftyPercent /\ m_kw = KEYWORD_ZERO_PERCENT

\* str.upper() on one character: a string, of two characters for the sharp s
UpperOf(c) ==
    CASE c = "a" -> <<"A">>
      [] c = "b" -> <<"B">>
      [] c = "d" -> <<"D">>
      [] c = "e" -> <<"E">>
      [] c = "f" -> <<"F">>
      [] c = "g" -> <<"G">>
      [] c = "i" -> <<"I">>
      [] c = "k" -> <<"K">>
      [] c = "n" -> <<"N">>
      [] c = "o" -> <<"O">>
      [] c = "r" -> <<"R">>
      [] c = "s" -> <<"S">>
      [] c = "t" -> <<"T">>
      [] c = "y" -> <<"Y">>
      [] c = SHARP_S -> <<"S", "S">>
      [] OTHER -> <<c>>

\* the character in its other letter case
OtherCase(c) == IF LowerChar(c) # c THEN <<LowerChar(c)>> ELSE UpperOf(c)

RECURSIVE Concat(_)
Concat(parts) == IF parts = <<>> THEN <<>> ELSE Head(parts) \o Concat(Tail(parts))

\* s with the letter case of the characters at the positions P changed
CaseChanged(s, P) ==
    Concat([i \in 1..Len(s) |-> IF i \in P THEN OtherCase(s[i]) ELSE <<s[i]>>])

\* s, s with the case of one character changed, s with the case of all changed
CaseChanges(s) ==
    {s, CaseChanged(s, 1..Len(s))} \cup {CaseChanged(s, {i}) : i \in 1..Len(s)}

\* C12: keyword counting is case-insensitive: count(text, keyword) is
\* unchanged when the letter case of any character of the text or of the
\* keyword is changed, and count("Kredyt is good", "kredyt") = 1.
CountIgnoresLetterCase ==
    m_state = "counted" =>
        /\ \A t \in CaseChanges(m_text) : \A k \in CaseChanges(m_kw) :
               count_keyword_occurrences_in_line(t, k) = m_count
        /\ (m_text = TextKredytIsGood /\ m_kw = KEYWORD_KREDYT) => m_count = 1

-----------------------------------------------------------------------------
(* Properties of the weights, under Spec                                   *)

\* the counts, in the window scored last, of the first n entries of the
\* keyword list that the weights mapping does not hold
RECURSIVE UnweightedCounts(_)
UnweightedCounts(n) ==
    IF n = 0 THEN 0
    ELSE UnweightedCounts(n - 1)
             + (IF \E p \in 1..Len(weights) : weights[p][1] = keywords[n]
                THEN 0
                ELSE PerLineTotal(ScoredWindowTexts, keywords[n]))

\* count x weight, in halves, of the first n entries of the keyword list that
\* the weights mapping holds
RECURSIVE ConfiguredPart(_)
ConfiguredPart(n) ==
    IF n = 0 THEN 0
    ELSE ConfiguredPart(n - 1)
             + (IF \E p \in 1..Len(weights) : weights[p][1] = keywords[n]
                THEN PerLineTotal(ScoredWindowTexts, keywords[n])
                         * weights[CHOOSE p \in 1..Len(weights) : weights[p][1] = keywords[n]][2]
                ELSE 0)

\* C13: a keyword absent from the weights mapping is scored with the default
\* weight 1.0: what the score of a window holds beyond the part of the
\* keywords with a configured weight is the count of the absent keywords
\* x 1.0 (the score is kept in halves).
AbsentKeywordWeighsOne ==
    last_score # <<>> =>
        last_score[1][1] - ConfiguredPart(Len(keywords)) = 2 * UnweightedCounts(Len(keywords))

\* a window was scored in which a keyword without a configured weight occurs
AbsentKeywordScored ==
    last_score # <<>> /\ UnweightedCounts(Len(keywords)) > 0

\* the weight, in halves, of the mapping key that is kw but for letter case,
\* 1.0 without such a key
WeightIgnoringCase(kw) ==
    IF \E p \in 1..Len(weights) : Lower(weights[p][1]) = Lower(kw)
    THEN weights[CHOOSE p \in 1..Len(weights) : Lower(weights[p][1]) = Lower(kw)][2]
    ELSE 2

RECURSIVE SumIgnoringCase(_)
SumIgnoringCase(n) ==
    IF n = 0 THEN 0
    ELSE SumIgnoringCase(n - 1)
             + PerLineTotal(ScoredWindowTexts, keywords[n]) * WeightIgnoringCase(keywords[n])

\* C14: the weights mapping is keyed case-insensitively: every keyword of the
\* keyword list is weighted with the weight of the mapping key that equals it
\* but for letter case, so that the keyword "Kredyt" under the mapping
\* {"kredyt": 2.0} is weighted 2.0.
WeightsKeyedIgnoringCase ==
    last_score # <<>> => last_score[1][1] = SumIgnoringCase(Len(keywords))

-----------------------------------------------------------------------------
(* Determinism of the scoring, under Spec                                  *)

\* the arrangements of the entries of s
PermsOf(s) ==
    {[i \in 1..Len(s) |-> s[f[i]]] :
        f \in {g \in [1..Len(s) -> 1..Len(s)] :
                  \A i, j \in 1..Len(s) : g[i] = g[j] => i = j}}

Ascending(s) == \A i, j \in 1..Len(s) : i < j => ~StrLess(s[j], s[i])

\* C15: scoring is deterministic: excerpts of the same window lines, scored
\* under the same weights, have the same score and the same keywords_found;
\* keywords_found is the found keywords in ascending order, and it is the
\* same under every order in which the keyword list may list its keywords.
ScoringDeterministic ==
    /\ \A a, b \in 1..Len(results) :
           results[a].transcription_lines = results[b].transcription_lines
               => /\ results[a].score = results[b].score
                  /\ results[a].keywords_found = results[b].keywords_found
    /\ last_score # <<>> =>
           /\ \E found \in PermsOf(last_score[1][2]) :
                  /\ Ascending(found)
                  /\ results[Len(results)].keywords_found = Join(<<",", " ">>, found)
           /\ \A listed \in PermsOf(keywords) :
                  Excerpt(vidx, parsed_lines, merged[wpos - 1], listed, weights).keywords_found
                      = results[Len(results)].keywords_found

\* two videos gave excerpts of the same lines in which both keywords of the
\* program were found, the later-sorted keyword being listed first
SameLinesScoredTwice ==
    /\ last_score # <<>>
    /\ Len(last_score[1][2]) = 2
    /\ StrLess(last_score[1][2][2], last_score[1][2][1])
    /\ \E a \in 1..(Len(results) - 1) :
           /\ results[a].videoId # results[Len(results)].videoId
           /\ results[a].transcription_lines = results[Len(results)].transcription_lines

-----------------------------------------------------------------------------
(* Isolation of the videos of a batch, under Spec                          *)

\* the merge loop over the sorted hits hs from hit k on, with the window
\* <<cs, ce, idx>> open and the windows out closed
RECURSIVE WindowsFrom(_, _, _, _, _, _)
WindowsFrom(hs, k, cs, ce, idx, out) ==
    IF k > Len(hs) THEN Append(out, <<cs, ce, idx>>)
    ELSE IF hs[k][1] <= ce + 1
         THEN WindowsFrom(hs, k + 1, cs, max(ce, hs[k][2]), Append(idx, hs[k][3]), out)
         ELSE WindowsFrom(hs, k + 1, hs[k][1], hs[k][2], <<hs[k][3]>>,
                          Append(out, <<cs, ce, idx>>))

\* the excerpts of video v as its own transcript, its metadata and the
\* configuration give them, with no other video in sight
ExcerptsAlone(v) ==
    IF catalogue[v].file # "ok" THEN <<>>
    ELSE LET content == catalogue[v].content
             pl == [k \in 1..Len(content) |-> parse_line(content[k])]
             hs == SortByStart(ScanLines(pl, keywords, radius))
             ws == IF hs = <<>> THEN <<>>
                   ELSE WindowsFrom(hs, 2, hs[1][1], hs[1][2], <<hs[1][3]>>, <<>>)
         IN [j \in 1..Len(ws) |-> Excerpt(v, pl, ws[j], keywords, weights)]

\* C16: the excerpts of a video are a function of its transcript lines, its
\* metadata and the configuration alone: in every batch, whatever the other
\* videos, their order and their outcomes, the excerpts the batch returns
\* for a video are those its own data give.
ExcerptsOfOwnDataOnly ==
    pc = "done" =>
        \A v \in 1..Len(catalogue) : ExcerptsFor(v) = ExcerptsAlone(v)

\* a batch ended in which the video V1 with excerpts came last, after a
\* video that failed and a video without hits
ExcerptsAmongOtherOutcomes ==
    /\ pc = "done"
    /\ Len(catalogue) = 3
    /\ catalogue[3].videoId = VideoId(1)
    /\ ExcerptsFor(3) # <<>>
    /\ {outcomes[1], outcomes[2]} = {<<"DONE_MISSING">>, <<"DONE_EMPTY">>}

-----------------------------------------------------------------------------
(* Properties of the timestamp codec, under SpecTimestamp                  *)

\* the places of the colons of s, in order, between the ends 0 and Len(s) + 1
Cuts(s) ==
    <<0>> \o SelectSeq([i \in 1..Len(s) |-> i], LAMBDA i : s[i] = ":") \o <<Len(s) + 1>>

\* the k-th of the ':'-separated parts of s
Part(s, k) == SubSeq(s, Cuts(s)[k] + 1, Cuts(s)[k + 1] - 1)

PartCount(s) == Len(Cuts(s)) - 1

\* a numeric part: decimal digits, a sign before them and blanks around them
\* allowed, as int() reads them
Numeric(f) ==
    \E a \in 1..Len(f) : \E b \in a..Len(f) :
        /\ \A i \in 1..(a - 1) : IsSpace(f[i]) \/ (i = a - 1 /\ f[i] \in {"+", "-"})
        /\ \A i \in a..b : IsDigit(f[i])
        /\ \A i \in (b + 1)..Len(f) : IsSpace(f[i])

\* C17: timestamp_to_seconds never raises; it returns minutes*60 + seconds
\* for exactly two numeric parts, hours*3600 + minutes*60 + seconds for
\* exactly three, and 0 for the empty string, for a part that is not
\* numeric and for any other number of parts; "1:05" gives 65, "1:02:03"
\* gives 3723, "" gives 0 and "bad:val" gives 0.
TimestampAsDescribed ==
    t_state = "decoded" =>
        /\ t_seconds # None
        /\ LET n == PartCount(t_text)
               numeric == \A k \in 1..n : Numeric(Part(t_text, k))
               val(k) == IntOf(Part(t_text, k))
           IN t_seconds[1] =
                  IF t_text = <<>> THEN 0
                  ELSE IF n = 2 /\ numeric THEN val(1) * 60 + val(2)
                  ELSE IF n = 3 /\ numeric THEN val(1) * 3600 + val(2) * 60 + val(3)
                  ELSE 0
        /\ t_text = <<"1", ":", "0", "5">> => t_seconds[1] = 65
        /\ t_text = <<"1", ":", "0", "2", ":", "0", "3">> => t_seconds[1] = 3723
        /\ t_text = <<>> => t_seconds[1] = 0
        /\ t_text = <<"b", "a", "d", ":", "v", "a", "l">> => t_seconds[1] = 0

\* "1:02:03" was decoded
HoursMinutesSecondsDecoded ==
    t_state = "decoded" /\ t_text = <<"1", ":", "0", "2", ":", "0", "3">>

\* C18, under SpecRoundTrip: for every N in [0, 3600), the text the transcript
\* writer makes of N seconds, "m:ss" with the minutes and the seconds of
\* divmod(N, 60), is decoded by timestamp_to_seconds to N.
WrittenTimeReadBack ==
    /\ t_state \in {"text", "decoded"} =>
           /\ PartCount(t_text) = 2
           /\ Len(Part(t_text, 2)) = 2
           /\ IntOf(Part(t_text, 1)) = t_start \div 60
           /\ IntOf(Part(t_text, 2)) = t_start % 60
    /\ t_state = "decoded" => t_seconds = <<t_start>>

\* 65 seconds were written as "1:05" and read back
SixtyFiveReadBack ==
    t_state = "decoded" /\ t_start = 65 /\ t_text = <<"1", ":", "0", "5">>

-----------------------------------------------------------------------------
(* Properties of the line parser, under SpecParseLine                      *)

\* s without the whitespace at its two ends
Trimmed(s) ==
    LET inner == {i \in 1..Len(s) : ~IsSpace(s[i])}
    IN IF inner = {} THEN <<>>
       ELSE SubSeq(s, CHOOSE a \in inner : \A i \in inner : a <= i,
                      CHOOSE b \in inner : \A i \in inner : i <= b)

\* C19: parse_line always succeeds: when the trimmed line starts with '[' and
\* holds a ']', the timestamp is what stands between the leading '[' and the
\* first ']' and the text is what follows that ']', trimmed; for every other
\* line the timestamp is empty and the text is the trimmed line.
ParseLineAsDescribed ==
    p_state = "parsed" =>
        /\ p_parsed # None
        /\ LET t == Trimmed(p_line)
               closings == {i \in 1..Len(t) : t[i] = "]"}
           IN IF t # <<>> /\ t[1] = "[" /\ closings # {}
              THEN LET first == CHOOSE c \in closings : \A i \in closings : c <= i
                   IN /\ p_parsed[1][1] = SubSeq(t, 2, first - 1)
                      /\ p_parsed[1][2] = Trimmed(SubSeq(t, first + 1, Len(t)))
              ELSE /\ p_parsed[1][1] = <<>>
                   /\ p_parsed[1][2] = t

\* a line of a transcript file was parsed into its timestamp and its text
TranscriptLineParsed ==
    /\ p_state = "parsed"
    /\ p_parsed[1][1] = <<"0", ":", "0", "5">>
    /\ p_parsed[1][2] = TextKredytNow

-----------------------------------------------------------------------------
(* Properties of the excerpt's times, under SpecOddTimes                   *)

\* the seconds a boundary line counts for: 0 without a timestamp
BoundarySeconds(line) ==
    IF line[1] = <<>> THEN 0 ELSE timestamp_to_seconds(line[1])

\* C20: every excerpt has length_seconds = max(0, end_seconds - start_seconds),
\* which is not negative; a boundary line without a timestamp is reported as
\* "0:00" and counts as 0 seconds, a boundary timestamp that cannot be parsed
\* counts as 0 seconds, and this holds too when the time of the end line is
\* before that of the start line.
LengthClampedAtZero ==
    /\ \A a \in 1..Len(results) : results[a].length_seconds >= 0
    /\ last_score # <<>> =>
           LET r == results[Len(results)]
               first == parsed_lines[merged[wpos - 1][1] + 1]
               last == parsed_lines[merged[wpos - 1][2] + 1]
               span == BoundarySeconds(last) - BoundarySeconds(first)
           IN /\ r.length_seconds = IF span > 0 THEN span ELSE 0
              /\ first[1] = <<>> => r.timestamp_start = <<"0", ":", "0", "0">>
              /\ last[1] = <<>> => r.timestamp_end = <<"0", ":", "0", "0">>
              /\ first[1] = <<"b", "a", "d">> => r.length_seconds = BoundarySeconds(last)
              /\ last[1] = <<"b", "a", "d">> => r.length_seconds = 0

\* an excerpt was made of a window whose end line is timed before its start
\* line
EndTimedBeforeStart ==
    /\ last_score # <<>>
    /\ BoundarySeconds(parsed_lines[merged[wpos - 1][2] + 1])
           < BoundarySeconds(parsed_lines[merged[wpos - 1][1] + 1])
    /\ results[Len(results)].length_seconds = 0

\* the text of the link after its last '='
AfterLastEquals(link) ==
    LET eqs == {i \in 1..Len(link) : link[i] = "="}
    IN SubSeq(link, (CHOOSE i \in eqs : \A j \in eqs : j <= i) + 1, Len(link))

\* C21: the link of every excerpt is the watch URL, the video id and
\* "&t=<start_seconds>s", start_seconds being the decoded timestamp of the
\* first line of the window, 0 when that line has no timestamp or one that
\* cannot be parsed; the t value is the seconds of the reported
\* timestamp_start.
LinkPointsAtWindowStart ==
    /\ \A a \in 1..Len(results) :
           LET r == results[a]
               t == AfterLastEquals(r.youtube_link)
           IN /\ IsPrefix(<<"h", "t", "t", "p", "s", ":", "/", "/", "w", "w", "w", ".",
                             "y", "o", "u", "t", "u", "b", "e", ".", "c", "o", "m", "/",
                             "w", "a", "t", "c", "h", "?", "v", "=">>
                               \o r.videoId \o <<"&", "t", "=">>, r.youtube_link)
              /\ t # <<>> /\ t[Len(t)] = "s"
              /\ IntValid(SubSeq(t, 1, Len(t) - 1))
              /\ IntOf(SubSeq(t, 1, Len(t) - 1)) = timestamp_to_seconds(r.timestamp_start)
    /\ last_score # <<>> =>
           LET first == parsed_lines[merged[wpos - 1][1] + 1]
               t == AfterLastEquals(results[Len(results)].youtube_link)
           IN /\ IntOf(SubSeq(t, 1, Len(t) - 1)) = BoundarySeconds(first)
              /\ first[1] \in {<<>>, <<"b", "a", "d">>} => t = <<"0", "s">>

\* an excerpt was linked whose window starts at a line timed 0:10 and ends at
\* a line with another time
LinkedAtTenSeconds ==
    /\ last_score # <<>>
    /\ parsed_lines[merged[wpos - 1][1] + 1][1] = <<"0", ":", "1", "0">>
    /\ parsed_lines[merged[wpos - 1][2] + 1][1] = <<"0", ":", "0", "5">>
    /\ AfterLastEquals(results[Len(results)].youtube_link) = <<"1", "0", "s">>

-----------------------------------------------------------------------------
(* Properties of sanitize_channel_handle, under SpecSanitize                *)

\* the result the claim C22 describes: of the characters that are kept, the
\* first 50 at most, in their order, each space among them turned into an
\* underscore
SanitizedAsDescribed(s, result) ==
    LET Kept(c) == c \notin {"<", ">", ":", "\"", "/", "\\", "|", "?", "*"}
        KeptUpTo[i \in 0..Len(s)] ==
            IF i = 0 THEN 0
            ELSE KeptUpTo[i - 1] + (IF Kept(s[i]) THEN 1 ELSE 0)
    IN /\ Len(result) = IF KeptUpTo[Len(s)] < 50 THEN KeptUpTo[Len(s)] ELSE 50
       /\ \A i \in 1..Len(s) :
              (Kept(s[i]) /\ KeptUpTo[i] <= 50) =>
                  result[KeptUpTo[i]] = IF s[i] = " " THEN "_" ELSE s[i]

\* C22: sanitize_channel_handle returns its input with every space replaced
\* by an underscore, every character of <>:"/\|?* removed and the result cut
\* to its first 50 characters; the result holds no space and none of those
\* characters and is at most 50 characters long; and the analyzer and the
\* downloader compute the same path segment for the same handle.
SanitizedHandleAsDescribed ==
    /\ h_analyzer # None =>
           LET result == ValueOf(h_analyzer)
           IN /\ SanitizedAsDescribed(h_handle, result)
              /\ Len(result) <= 50
              /\ \A k \in 1..Len(result) :
                     result[k] \notin {" ", "<", ">", ":", "\"", "/", "\\", "|", "?", "*"}
    /\ h_downloader # None =>
           LET result == ValueOf(h_downloader)
           IN /\ SanitizedAsDescribed(h_handle, result)
              /\ Len(result) <= 50
              /\ \A k \in 1..Len(result) :
                     result[k] \notin {" ", "<", ">", ":", "\"", "/", "\\", "|", "?", "*"}
    /\ h_state = "both" => h_analyzer = h_downloader

\* both programs have sanitized a handle of more than 50 characters that
\* begins with a removed character and ends with a space: the result is 50
\* characters long and keeps the character that followed the first 50
LongHandleSanitized ==
    /\ h_state = "both"
    /\ Len(h_handle) = 52
    /\ h_handle[1] = "/"
    /\ h_handle[52] = " "
    /\ Len(ValueOf(h_analyzer)) = 50
    /\ ValueOf(h_analyzer)[50] = "x"
    /\ ValueOf(h_downloader) = ValueOf(h_analyzer)

-----------------------------------------------------------------------------
(* Properties of the windows of one transcript, under SpecWindows           *)

\* the lines (0-based) of the transcript at hand that hold a keyword
TriggersOfTranscript ==
    {i \in 0..(Len(parsed_lines) - 1) :
        \E j \in 1..Len(keywords) :
            count_keyword_occurrences_in_line(parsed_lines[i + 1][2], keywords[j]) > 0}

\* the places of line i in the trigger lists of the merged windows
PlacesInWindows(i) ==
    {<<k, j>> \in (1..Len(merged)) \X (1..Len(parsed_lines)) :
        j <= Len(merged[k][3]) /\ merged[k][3][j] = i}

\* a merged window as the claim C23 describes it
WindowAsDescribed(window) ==
    LET s == window[1]
        e == window[2]
        idx == window[3]
        first == idx[1]
        last == idx[Len(idx)]
    IN /\ idx # <<>>
       /\ \A j \in 1..(Len(idx) - 1) : idx[j] < idx[j + 1]
       /\ \A j \in 1..Len(idx) : s <= idx[j] /\ idx[j] <= e /\ idx[j] \in TriggersOfTranscript
       /\ s = IF first - radius > 0 THEN first - radius ELSE 0
       /\ e = IF last + radius < Len(parsed_lines) - 1 THEN last + radius
              ELSE Len(parsed_lines) - 1

\* C23: once the merge loop has ended, every line that holds a keyword is in
\* the trigger list of exactly one merged window, and every merged window has
\* a non-empty, strictly ascending trigger list within [start, end], with
\* start = max(0, first trigger - R) and end = min(len - 1, last trigger + R);
\* one excerpt is emitted per merged window, so that their numbers are equal
\* when the scoring loop has ended, and every excerpt has a non-empty
\* keywords_found.
TriggersShareWindows ==
    pc = "score" =>
        /\ \A i \in TriggersOfTranscript : Cardinality(PlacesInWindows(i)) = 1
        /\ \A k \in 1..Len(merged) : WindowAsDescribed(merged[k])
        /\ Len(results) = wpos - 1
        /\ wpos <= Len(merged) + 1
        /\ \A k \in 1..Len(results) : results[k].keywords_found # <<>>

\* the scoring loop has ended for a transcript that gave three windows, one of
\* them with two trigger lines, and as many excerpts
ThreeWindowsScored ==
    /\ pc = "score"
    /\ wpos = Len(merged) + 1
    /\ Len(merged) = 3
    /\ Len(results) = 3
    /\ \E k \in 1..3 : Len(merged[k][3]) = 2

\* the trigger lines of the hits j and j + 1 are in one merged window
InOneWindow(j) ==
    \E k \in 1..Len(merged) :
        /\ \E a \in 1..Len(merged[k][3]) : merged[k][3][a] = hits[j][3]
        /\ \E b \in 1..Len(merged[k][3]) : merged[k][3][b] = hits[j + 1][3]

\* the candidate of hit j + 1 starts n lines after the end of the candidate
\* of hit j
StartsAfter(j, n) == hits[j + 1][1] = hits[j][2] + n

\* C24, as stated: two windows separated by exactly one line that lies in
\* neither of them (the next candidate starts at current_end + 2) still merge
\* into a single window.
OneLineGapMerges ==
    pc = "score" =>
        \A j \in 1..(Len(hits) - 1) : StartsAfter(j, 2) => InOneWindow(j)

\* C24, amended: under the merge test start <= current_end + 1, a candidate
\* that starts right after the end of the open window (at current_end + 1, no
\* line between them) is merged into it, and a candidate that starts at
\* current_end + 2, one line lying between them, opens a window of its own.
OneLineGapSeparates ==
    pc = "score" =>
        \A j \in 1..(Len(hits) - 1) :
            /\ StartsAfter(j, 1) => InOneWindow(j)
            /\ StartsAfter(j, 2) => ~InOneWindow(j)

\* the merge has ended for a transcript with a candidate that starts right
\* after the one before it and a candidate that starts one line further
AdjacentAndApartMerged ==
    /\ pc = "score"
    /\ \E j \in 1..(Len(hits) - 1) : StartsAfter(j, 1) /\ InOneWindow(j)
    /\ \E j \in 1..(Len(hits) - 1) : StartsAfter(j, 2) /\ ~InOneWindow(j)

-----------------------------------------------------------------------------
(* The missing-transcripts list, under Spec                                 *)

\* an entry of the missing list that is a record of the three fields
IsMissingRecord(entry) ==
    /\ entry.kind = "dict"
    /\ DOMAIN entry.value = {"videoId", "channelHandle", "publishedAt"}

\* C25: every entry appended to the missing-transcripts list, for a file that
\* is absent and for a file that cannot be read, is a record with the fields
\* videoId, channelHandle and publishedAt, so that a list that is not empty
\* is written in full to the three-column file whenever the file is written.
MissingEntriesAreRecords ==
    /\ \A k \in 1..Len(missing_transcriptions) :
           IsMissingRecord(missing_transcriptions[k])
    /\ (pc = "done" /\ missing_csv # None) =>
           /\ Len(ValueOf(missing_csv)) = Len(missing_transcriptions)
           /\ \A k \in 1..Len(missing_transcriptions) :
                  ValueOf(missing_csv)[k] = missing_transcriptions[k].value

-----------------------------------------------------------------------------
(* Properties of append_unique_videos_to_csv, under SpecCsv                 *)

\* C26: after any sequence of append_unique_videos_to_csv calls with any
\* lists of videos, a list that holds one videoId more than once included,
\* the CSV file holds each videoId at most once.
CsvHoldsEachVideoOnce ==
    csv_file # None =>
        LET rows == ValueOf(csv_file).rows
        IN \A a, b \in 1..Len(rows) : rows[a].videoId = rows[b].videoId => a = b

-----------------------------------------------------------------------------
(* Properties of get_channel_handle, under SpecCache                        *)

\* how often x is listed in the sequence s
TimesIn(s, x) == Cardinality({i \in 1..Len(s) : s[i] = x})

\* how many requests for the channel id were sent to the API
RequestsFor(channel_id) ==
    Cardinality({i \in 1..Len(api_requests) : api_requests[i][1] = channel_id})

\* how many calls for the channel id have returned
ReturnsFor(channel_id) ==
    Cardinality({i \in 1..Len(handles_returned) : handles_returned[i][1] = channel_id})

\* C27, as stated: for any sequence of get_channel_handle calls, the remote
\* API is queried at most once per channel id.
ApiQueriedOncePerChannel ==
    \A channel_id \in ChannelIds : RequestsFor(channel_id) <= 1

\* C27, amended: a lookup that returns, whatever its outcome (custom URL
\* found, no custom URL, no channel found, HTTP error), stores the handle it
\* returns in the cache, and every later call for that id returns that same
\* handle without a request; so the API is queried at most once per channel
\* id after the first lookup that returned. A lookup whose request raises
\* another exception stores nothing, and the next call for that id sends a
\* request again: the requests for an id are one for each lookup that raised
\* and one more if the id is in the cache.
ApiQueriedOncePerStoredHandle ==
    \A channel_id \in ChannelIds :
        /\ RequestsFor(channel_id) =
               TimesIn(lookups_raised, channel_id)
                   + (IF DictHas(channel_handle_cache, channel_id) THEN 1 ELSE 0)
        /\ ReturnsFor(channel_id) > 0 <=> DictHas(channel_handle_cache, channel_id)
        /\ \A i \in 1..Len(handles_returned) :
               handles_returned[i][1] = channel_id =>
                   handles_returned[i][2] = DictGet(channel_handle_cache, channel_id, None)

\* two channels were looked up twice each with one request each: one got the
\* handle of its custom URL, the other the fallback handle
TwoChannelsServedFromCache ==
    /\ Len(handles_returned) = 4
    /\ api_requests = <<<<ChannelId(1), "items">>, <<ChannelId(2), "HttpError">>>>
    /\ ReturnsFor(ChannelId(1)) = 2
    /\ ReturnsFor(ChannelId(2)) = 2
    /\ DictGet(channel_handle_cache, ChannelId(1), None) = <<"@", "n">>
    /\ DictGet(channel_handle_cache, ChannelId(2), None) = <<"@", "U", "C", "2">>

-----------------------------------------------------------------------------
(* Properties of the downloader, under SpecDownload                         *)

\* the row the loop of main is at lacks its videoId or its channelHandle
RowLacksField ==
    /\ d_pc = "rows"
    /\ d_row < Len(d_rows)
    /\ (d_rows[d_row + 1].videoId = <<>> \/ d_rows[d_row + 1].channelHandle = <<>>)

\* the file of the row the loop of main is at exists
RowHasFile ==
    /\ d_pc = "rows"
    /\ d_row < Len(d_rows)
    /\ ~RowLacksField
    /\ \E f \in d_files :
           f.path = <<downloader_sanitize_channel_handle(d_rows[d_row + 1].channelHandle),
                      d_rows[d_row + 1].videoId>>

\* one step of the downloader, as the claim C28 describes it
DownloadStepAsDescribed ==
    /\ RowHasFile => (d_requests' = d_requests /\ d_files' = d_files)
    /\ \A f \in d_files : f \in d_files'
    /\ d_event' = "no transcript" => d_files' = d_files
    /\ RowLacksField =>
           /\ d_pc' = "rows"
           /\ d_row' = d_row + 1
           /\ d_files' = d_files
           /\ d_requests' = d_requests

\* C28: across any sequence of downloader runs over any catalogue, a
\* transcript file that exists for (sanitized channel handle, video id) is
\* never downloaded again and never overwritten; a video whose download fails
\* for every configured language leaves no transcript file; a row that lacks
\* its videoId or its channelHandle is skipped and the run goes on.
ExistingTranscriptsKept == [][DownloadStepAsDescribed]_vars

\* in a second run the loop has skipped, after a row without videoId, a row
\* whose transcript the first run wrote under the sanitized handle; the file
\* is the one the first run wrote and no second request was made
SecondRunSkippedExisting ==
    /\ d_run = 2
    /\ d_pc = "rows"
    /\ d_row = 2
    /\ d_event = "exists"
    /\ d_rows[1].videoId = <<>>
    /\ d_requests = 1
    /\ d_files = {[path |-> <<HandleWithUnderscore, VideoId(1)>>, run |-> 1, row |-> 2,
                   complete |-> TRUE]}
    /\ d_rows[2].channelHandle = HandleWithSpace

====
